---- MODULE Spec2Model ----
(***************************************************************************)
(* Order lifecycle and cart-to-order pipeline of Read9ja:                  *)
(*   CartService    (src/src/services/firebase/analyticsService.ts)        *)
(*   OrderService   (src/src/services/firebase/orderService.ts)            *)
(*   ProductService (src/src/services/firebase/productService.ts)          *)
(*                                                                         *)
(* The document store is the shared state.  Every service method is an     *)
(* async function: each `await` of a store access is one atomic step, and  *)
(* steps of calls made by different users interleave freely.  A user runs  *)
(* one call at a time (the screens await each service call), so a cart     *)
(* document, which only its owner touches, is never accessed by two calls  *)
(* at once; a cart method that reads one product is therefore a single     *)
(* step, and one that loops over the cart lines takes a step per product   *)
(* read.                                                                   *)
(***************************************************************************)
EXTENDS Integers, Sequences, FiniteSets, TLC

\* ------------------------------------------------------------------ bounds
MaxStock == 1       \* initial stock of every product
MaxQty == 2         \* largest quantity passed to addToCart
MaxOrders == 2      \* order documents ever created
RaceOrders == 1     \* order documents ever created under SpecRace
MaxLifecycle == 3   \* updateOrderStatus / verifyOrderDelivery / cancelOrder calls
MaxFaults == 1      \* store operations that fail (SpecFault only)
FaultLifecycle == 2 \* lifecycle calls under SpecFault
RaceLifecycle == 2  \* lifecycle calls under SpecRace

Users == {"u1", "u2"}
Products == {"p1", "p2", "p3"}
Codes == {"482913", "000000"}

\* types/index.ts: OrderStatus
OrderStatus ==
  {"pending", "payment_verified", "rider_assigned", "picked_up",
   "in_transit", "delivered", "cancelled", "refunded"}

\* The product documents the sellers created (ProductService.createProduct):
\* p1 and p2 belong to seller s1, p3 to seller s2.  Catalogue(S) holds the
\* documents of the products in S; an id outside S names no document.
Catalogue(S) ==
  [p \in S |->
     [sellerId |-> IF p = "p3" THEN "s2" ELSE "s1",
      price    |-> IF p = "p1" THEN 4000 ELSE IF p = "p2" THEN 7000 ELSE 3000,
      stock    |-> MaxStock,
      status   |-> "active"]]

VARIABLES
  products,   \* collection 'products': productId -> document
  carts,      \* collection 'carts': userId -> document
  orders,     \* collection 'orders': sequence of documents, id = index
  tracking,   \* collection 'order_tracking': per order, statuses in timestamp order
  ledger,     \* history: per order, its cart lines, the stock writes made on
              \* its behalf, the writes of its status, in the order applied,
              \* and the notification dispatches that failed
  call,       \* per user: the service call in progress or last completed
  budget      \* what the run may still spend: lifecycle calls, store faults;
              \* and the number of order documents it may create

vars == <<products, carts, orders, tracking, ledger, call, budget>>

\* ------------------------------------------------------- pure functions

RECURSIVE SumQuantity(_)
SumQuantity(items) ==
  IF items = <<>> THEN 0
  ELSE Head(items).quantity + SumQuantity(Tail(items))

RECURSIVE SumAmount(_)
SumAmount(items) ==
  IF items = <<>> THEN 0
  ELSE Head(items).product.price * Head(items).quantity + SumAmount(Tail(items))

\* CartService.calculateCartTotals
calculateCartTotals(items) ==
  [totalItems |-> SumQuantity(items), totalAmount |-> SumAmount(items)]

\* Keys of the Map built by groupCartItemsBySeller, in insertion order.
RECURSIVE SellerKeys(_)
SellerKeys(items) ==
  IF items = <<>> THEN <<>>
  ELSE LET k == Head(items).product.sellerId
       IN <<k>> \o SelectSeq(SellerKeys(Tail(items)), LAMBDA s : s # k)

\* OrderService.groupCartItemsBySeller
groupCartItemsBySeller(items) ==
  LET keys == SellerKeys(items)
  IN [i \in 1..Len(keys) |->
        [sellerId |-> keys[i],
         items    |-> SelectSeq(items, LAMBDA it : it.product.sellerId = keys[i])]]

\* cart.items.findIndex(item => item.productId === productId); 0 when absent
findIndex(items, p) ==
  IF \E i \in 1..Len(items) : items[i].productId = p
  THEN CHOOSE i \in 1..Len(items) :
         items[i].productId = p /\ \A j \in 1..(i - 1) : items[j].productId # p
  ELSE 0

\* ProductService.updateStock: a bare increment(+/-quantity) on the document;
\* the write fails only when the document does not exist.
updateStockFails(prods, p) == p \notin DOMAIN prods

\* updateStock as a write of a value computed from the stock first read,
\* which loses every adjustment made in between
updateStock_overwrites(prods, p, quantity, operation) ==
  LET increment_value == IF operation = "add" THEN quantity ELSE -quantity
  IN [prods EXCEPT ![p].stock = MaxStock + increment_value]

updateStock(prods, p, quantity, operation) ==
  LET increment_value == IF operation = "add" THEN quantity ELSE -quantity
  IN [prods EXCEPT ![p].stock = @ + increment_value]

\* OrderService.addTrackingEntry: a pure insert
addTrackingEntry(trk, o, status) ==
  [trk EXCEPT ![o] = Append(@, status)]

\* The cancellable statuses tested by cancelOrder
Cancellable == {"pending", "payment_verified", "rider_assigned"}

\* ------------------------------------------------------------ call state

\* JavaScript null
null == [null |-> TRUE]

Idle ==
  [pc |-> "idle", op |-> "none", result |-> "none",
   orderId |-> 0, newStatus |-> "none", code |-> "none", seen |-> "none",
   items |-> <<>>, vi |-> 0, errors |-> <<>>, unavailable |-> <<>>,
   pi |-> 0, ii |-> 0, orderRef |-> 0, orderIds |-> <<>>,
   updatedItems |-> <<>>, hasChanges |-> FALSE, read |-> <<>>,
   summary |-> null]

\* User u is at work and no call of u is in progress
Free(u) == u \in DOMAIN call /\ call[u].pc \in {"idle", "done"}

\* User u is at work and u's call stands before the step named pc
At(u, pc) == u \in DOMAIN call /\ call[u].pc = pc

\* A call that returned (result "ok") or threw (result = the Error's message).
Done(rec, res) ==
  [Idle EXCEPT !.pc = "done", !.op = rec.op, !.result = res,
               !.orderId = rec.orderId, !.errors = rec.errors,
               !.unavailable = rec.unavailable, !.orderIds = rec.orderIds,
               !.hasChanges = rec.hasChanges, !.read = rec.read,
               !.summary = rec.summary,
               !.seen = IF rec.op \in {"syncCartWithLatestData",
                                        "validateCartForCheckout"}
                        THEN rec.seen ELSE "none"]

EmptyCart == [exists |-> FALSE, items |-> <<>>, totalItems |-> 0, totalAmount |-> 0]

\* CartService.getCart: the stored cart; a missing document is created empty.
getCart(u) == [carts[u] EXCEPT !.exists = TRUE]

\* ProductService.getProduct: the document, or null
NoProduct == [sellerId |-> "none", price |-> 0, stock |-> 0, status |-> "null"]

getProduct(p) == IF p \in DOMAIN products THEN products[p] ELSE NoProduct

\* The reads of a call (productId -> the document getProduct returned for
\* it) after getProduct(p) returned product
withRead(read, p, product) ==
  [q \in DOMAIN read \cup {p} |-> IF q = p THEN product ELSE read[q]]

\* The users at work (the domain of call)
Active == DOMAIN call

\* The store before any cart or order exists: the product documents of S,
\* the users U at work, and what the run may still spend.
Start(S, U, maxOrders, life, faults) ==
  /\ products = Catalogue(S)
  /\ carts = [u \in U |-> EmptyCart]
  /\ orders = <<>>
  /\ tracking = <<>>
  /\ ledger = <<>>
  /\ call = [u \in U |-> Idle]
  /\ budget = [orders |-> maxOrders, life |-> life, faults |-> faults]

\* One user working alone through the whole pipeline
Init == Start({"p1", "p2"}, {"u1"}, MaxOrders, MaxLifecycle, 0)

\* ------------------------------------------------------------ CartService

\* addToCart appending a new line whether or not the product is in the cart
addToCart_appends(u, p, quantity) ==
  /\ Free(u)
  /\ LET product == getProduct(p)
         cart == getCart(u)
         updatedItems ==
           Append(cart.items,
                  [productId |-> p, product |-> product, quantity |-> quantity])
         totals == calculateCartTotals(updatedItems)
         rec == [Idle EXCEPT !.op = "addToCart"]
     IN IF product = NoProduct
        THEN /\ call' = [call EXCEPT ![u] = Done(rec, "Product not found")]
             /\ UNCHANGED carts
        ELSE IF product.stock < quantity
        THEN /\ call' = [call EXCEPT ![u] = Done(rec, "Insufficient stock available")]
             /\ UNCHANGED carts
        ELSE /\ call' = [call EXCEPT ![u] = Done(rec, "ok")]
             /\ carts' = [carts EXCEPT ![u] =
                            [exists |-> TRUE, items |-> updatedItems,
                             totalItems |-> totals.totalItems,
                             totalAmount |-> totals.totalAmount]]
  /\ UNCHANGED <<products, orders, tracking, ledger, budget>>

\* CartService.addToCart (whole handler)
addToCart(u, p, quantity) ==
  /\ Free(u)
  /\ LET product == getProduct(p)
         cart == getCart(u)
         existingItemIndex == findIndex(cart.items, p)
         newQuantity ==
           IF existingItemIndex > 0
           THEN cart.items[existingItemIndex].quantity + quantity
           ELSE quantity
         updatedItems ==
           IF existingItemIndex > 0
           THEN [cart.items EXCEPT ![existingItemIndex].quantity = newQuantity]
           ELSE Append(cart.items,
                       [productId |-> p, product |-> product, quantity |-> quantity])
         totals == calculateCartTotals(updatedItems)
         rec == [Idle EXCEPT !.op = "addToCart"]
     IN IF product = NoProduct
        THEN /\ call' = [call EXCEPT ![u] = Done(rec, "Product not found")]
             /\ UNCHANGED carts
        ELSE IF product.stock < quantity
        THEN /\ call' = [call EXCEPT ![u] = Done(rec, "Insufficient stock available")]
             /\ UNCHANGED carts
        ELSE IF existingItemIndex > 0 /\ newQuantity > product.stock
        THEN /\ call' = [call EXCEPT ![u] =
                           Done(rec, "Cannot add more items than available stock")]
             /\ carts' = [carts EXCEPT ![u] = cart]
        ELSE /\ call' = [call EXCEPT ![u] = Done(rec, "ok")]
             /\ carts' = [carts EXCEPT ![u] =
                            [exists |-> TRUE, items |-> updatedItems,
                             totalItems |-> totals.totalItems,
                             totalAmount |-> totals.totalAmount]]
  /\ UNCHANGED <<products, orders, tracking, ledger, budget>>

\* ----------------------------------------------- OrderService: checkout

\* Seller partitions of the cart read by the checkout of user u
Partitions(u) == groupCartItemsBySeller(call[u].items)

\* Order documents that the checkout in progress of user v may still add
Reserved(v) ==
  LET n == Len(SellerKeys(call[v].items))
  IN CASE call[v].pc = "validate" -> n
       [] call[v].pc = "addDoc" -> n - call[v].pi + 1
       [] call[v].pc \in {"stock", "track"} -> n - call[v].pi
       [] OTHER -> 0

RECURSIVE SumReserved(_)
SumReserved(S) ==
  IF S = {} THEN 0
  ELSE LET v == CHOOSE x \in S : TRUE IN Reserved(v) + SumReserved(S \ {v})

\* OrderService.createOrderFromCart, lines 48-59: getCart, then the getCart and
\* the empty-cart test that open validateCartForCheckout.
createOrderFromCart(u) ==
  /\ Free(u)
  /\ LET cart == getCart(u)
         rec == [Idle EXCEPT !.op = "createOrderFromCart"]
     IN /\ Len(orders) + SumReserved(Active \ {u}) + Len(SellerKeys(cart.items))
             <= budget.orders
        /\ carts' = [carts EXCEPT ![u] = cart]
        /\ IF cart.items = <<>>
           THEN call' = [call EXCEPT ![u] =
                           Done([rec EXCEPT !.errors = <<"Cart is empty">>],
                                "Cart is empty")]
           ELSE call' = [call EXCEPT ![u] =
                           [rec EXCEPT !.pc = "validate", !.items = cart.items,
                                       !.vi = 1]]
  /\ UNCHANGED <<products, orders, tracking, ledger, budget>>

\* The errors validateCartForCheckout reports for one cart line against the
\* live product document.
itemErrors(cartItem, product) ==
  IF product = NoProduct
  THEN <<[kind |-> "is no longer available", productId |-> cartItem.productId]>>
  ELSE IF product.status # "active"
  THEN <<[kind |-> "is currently unavailable", productId |-> cartItem.productId]>>
  ELSE IF product.stock < cartItem.quantity
  THEN <<[kind |-> "Only stock units available", productId |-> cartItem.productId]>>
  ELSE IF product.price - cartItem.product.price > 0
          \/ cartItem.product.price - product.price > 0
  THEN <<[kind |-> "Price has changed", productId |-> cartItem.productId]>>
  ELSE <<>>

\* itemUnavailable listing also the lines that ask for more than the stock
itemUnavailable_listsShort(cartItem, product) ==
  IF product = NoProduct \/ product.status # "active"
       \/ product.stock < cartItem.quantity
  THEN <<cartItem.productId>> ELSE <<>>

\* The productIds validateCartForCheckout adds to unavailableItems for one
\* cart line
itemUnavailable(cartItem, product) ==
  IF product = NoProduct \/ product.status # "active"
  THEN <<cartItem.productId>> ELSE <<>>

\* validateCartForCheckout with createOrderFromCart going on to create the
\* orders whatever the validation reported
validateCartForCheckout_proceeds(u) ==
  /\ At(u, "validate")
  /\ LET c == call[u]
         cartItem == c.items[c.vi]
         product == getProduct(cartItem.productId)
         errors == c.errors \o itemErrors(cartItem, product)
         unavailableItems == c.unavailable \o itemUnavailable(cartItem, product)
         same == /\ cartItem.productId \in DOMAIN c.read
                 /\ c.read[cartItem.productId] = product
         next == [c EXCEPT !.errors = errors, !.unavailable = unavailableItems,
                           !.seen = IF same THEN @ ELSE "none",
                           !.read = withRead(@, cartItem.productId, product)]
     IN call' = [call EXCEPT ![u] =
          IF c.vi < Len(c.items) THEN [next EXCEPT !.vi = c.vi + 1]
          ELSE IF c.op = "validateCartForCheckout" THEN Done(next, "ok")
          ELSE [next EXCEPT !.pc = "addDoc", !.vi = 0, !.pi = 1]]
  /\ UNCHANGED <<products, carts, orders, tracking, ledger, budget>>

\* CartService.validateCartForCheckout, one iteration of the loop (one
\* getProduct); after the last line createOrderFromCart tests isValid.
validateCartForCheckout(u) ==
  /\ At(u, "validate")
  /\ LET c == call[u]
         cartItem == c.items[c.vi]
         product == getProduct(cartItem.productId)
         errors == c.errors \o itemErrors(cartItem, product)
         unavailableItems == c.unavailable \o itemUnavailable(cartItem, product)
         same == /\ cartItem.productId \in DOMAIN c.read
                 /\ c.read[cartItem.productId] = product
         next == [c EXCEPT !.errors = errors, !.unavailable = unavailableItems,
                           !.seen = IF same THEN @ ELSE "none",
                           !.read = withRead(@, cartItem.productId, product)]
     IN call' = [call EXCEPT ![u] =
          IF c.vi < Len(c.items) THEN [next EXCEPT !.vi = c.vi + 1]
          ELSE IF c.op = "validateCartForCheckout" THEN Done(next, "ok")
          ELSE IF Len(errors) = 0 THEN [next EXCEPT !.pc = "addDoc", !.vi = 0, !.pi = 1]
          ELSE Done(next, "validation.errors")]
  /\ UNCHANGED <<products, carts, orders, tracking, ledger, budget>>

\* OrderService.createSingleOrder, lines 98-132: build orderData, addDoc
createSingleOrder_addDoc(u) ==
  /\ At(u, "addDoc")
  /\ LET c == call[u]
         part == Partitions(u)[c.pi]
         items == part.items
         firstItem == items[1]
     IN \E verificationCode \in Codes :
          /\ orders' = Append(orders,
               [buyerId |-> u, sellerId |-> part.sellerId,
                productId |-> firstItem.productId,
                price |-> firstItem.product.price,
                quantity |-> SumQuantity(items),
                totalAmount |-> SumAmount(items),
                status |-> "pending",
                verificationCode |-> verificationCode])
          /\ tracking' = Append(tracking, <<>>)
          /\ ledger' = Append(ledger,
               [lines |-> [i \in 1..Len(items) |->
                             [productId |-> items[i].productId,
                              quantity |-> items[i].quantity]],
                decremented |-> 0, restored |-> 0, unsent |-> 0,
                writes |-> <<[op |-> "createSingleOrder", status |-> "pending"]>>])
          /\ call' = [call EXCEPT ![u] =
                        [c EXCEPT !.pc = "stock", !.ii = 1,
                                  !.orderRef = Len(orders) + 1]]
  /\ UNCHANGED <<products, carts, budget>>

\* OrderService.createSingleOrder, lines 135-137: one iteration of the loop
createSingleOrder_updateStock(u) ==
  /\ At(u, "stock")
  /\ LET c == call[u]
         items == Partitions(u)[c.pi].items
         item == items[c.ii]
     IN IF updateStockFails(products, item.productId)
        THEN /\ call' = [call EXCEPT ![u] = Done(c, "Failed to update stock")]
             /\ UNCHANGED <<products, ledger>>
        ELSE /\ products' = updateStock(products, item.productId, item.quantity,
                                        "subtract")
             /\ ledger' = [ledger EXCEPT ![c.orderRef].decremented = @ + 1]
             /\ call' = [call EXCEPT ![u] =
                           IF c.ii < Len(items) THEN [c EXCEPT !.ii = c.ii + 1]
                           ELSE [c EXCEPT !.pc = "track", !.ii = 0]]
  /\ UNCHANGED <<carts, orders, tracking, budget>>

\* createSingleOrder_addTrackingEntry with the cart cleared inside the loop,
\* after each partition
createSingleOrder_addTrackingEntry_clears(u) ==
  /\ At(u, "track")
  /\ LET c == call[u]
         pushed == [c EXCEPT !.orderIds = Append(@, c.orderRef), !.orderRef = 0]
     IN /\ tracking' = addTrackingEntry(tracking, c.orderRef, "pending")
        /\ call' = [call EXCEPT ![u] =
                      IF c.pi < Len(Partitions(u))
                      THEN [pushed EXCEPT !.pc = "addDoc", !.pi = c.pi + 1]
                      ELSE [pushed EXCEPT !.pc = "clear"]]
  /\ carts' = [carts EXCEPT ![u] =
                 [exists |-> TRUE, items |-> <<>>, totalItems |-> 0,
                  totalAmount |-> 0]]
  /\ UNCHANGED <<products, orders, ledger, budget>>

\* OrderService.createSingleOrder, lines 140-152: the initial tracking entry,
\* the notifications (errors swallowed), the commit of the transaction, which
\* holds no read and no write, and orderIds.push in createOrderFromCart.
createSingleOrder_addTrackingEntry(u) ==
  /\ At(u, "track")
  /\ LET c == call[u]
         pushed == [c EXCEPT !.orderIds = Append(@, c.orderRef), !.orderRef = 0]
     IN /\ tracking' = addTrackingEntry(tracking, c.orderRef, "pending")
        /\ call' = [call EXCEPT ![u] =
                      IF c.pi < Len(Partitions(u))
                      THEN [pushed EXCEPT !.pc = "addDoc", !.pi = c.pi + 1]
                      ELSE [pushed EXCEPT !.pc = "clear"]]
  /\ UNCHANGED <<products, carts, orders, ledger, budget>>

\* CartService.clearCart, called at createOrderFromCart line 79, and the return
createOrderFromCart_clearCart(u) ==
  /\ At(u, "clear")
  /\ carts' = [carts EXCEPT ![u] =
                 [exists |-> TRUE, items |-> <<>>, totalItems |-> 0,
                  totalAmount |-> 0]]
  /\ call' = [call EXCEPT ![u] = Done(call[u], "ok")]
  /\ UNCHANGED <<products, orders, tracking, ledger, budget>>

NextCheckout ==
  \E u \in Users :
    \/ \E p \in Products, q \in 1..MaxQty : addToCart(u, p, q)
    \/ createOrderFromCart(u)
    \/ validateCartForCheckout(u)
    \/ createSingleOrder_addDoc(u)
    \/ createSingleOrder_updateStock(u)
    \/ createSingleOrder_addTrackingEntry(u)
    \/ createOrderFromCart_clearCart(u)

\* ---------------------------------------------- OrderService: lifecycle

\* OrderService.getOrder: the document, or null
getOrder(o) == IF o \in DOMAIN orders THEN orders[o] ELSE [status |-> "null"]

\* OrderService.updateOrderStatus, lines 261-282: updateDoc writes the status.
\* updateDoc on a missing document throws; the catch rethrows.
updateOrderStatus(u, o, newStatus) ==
  /\ Free(u)
  /\ budget.life > 0
  /\ budget' = [budget EXCEPT !.life = @ - 1]
  /\ LET rec == [Idle EXCEPT !.op = "updateOrderStatus", !.orderId = o,
                             !.newStatus = newStatus]
     IN IF o \notin DOMAIN orders
        THEN /\ call' = [call EXCEPT ![u] = Done(rec, "Failed to update order status")]
             /\ UNCHANGED <<orders, ledger>>
        ELSE /\ orders' = [orders EXCEPT ![o].status = newStatus]
             /\ ledger' = [ledger EXCEPT ![o].writes =
                              Append(@, [op |-> "updateOrderStatus",
                                         status |-> newStatus])]
             /\ call' = [call EXCEPT ![u] = [rec EXCEPT !.pc = "us_track"]]
  /\ UNCHANGED <<products, carts, tracking>>

\* updateOrderStatus_addTrackingEntry waiting for ever on the store
updateOrderStatus_addTrackingEntry_waits(u) ==
  /\ At(u, "us_track")
  /\ UNCHANGED vars

\* OrderService.updateOrderStatus, lines 285-305: the tracking entry, then
\* getOrder and the notifications (errors swallowed), then the return; also
\* the tail of verifyOrderDelivery, which awaits updateOrderStatus.
updateOrderStatus_addTrackingEntry(u) ==
  /\ At(u, "us_track")
  /\ tracking' = addTrackingEntry(tracking, call[u].orderId, call[u].newStatus)
  /\ call' = [call EXCEPT ![u] = Done(call[u], "ok")]
  /\ UNCHANGED <<products, carts, orders, ledger, budget>>

\* verifyCheck without the test of the status
verifyCheck_anyStatus(order, verificationCode) ==
  IF order.status = "null" THEN "Order not found"
  ELSE IF order.verificationCode # verificationCode THEN "Invalid verification code"
  ELSE "ok"

\* verifyCheck with the status tested before the code
verifyCheck_statusFirst(order, verificationCode) ==
  IF order.status = "null" THEN "Order not found"
  ELSE IF order.status # "in_transit"
  THEN "Order is not ready for delivery verification"
  ELSE IF order.verificationCode # verificationCode THEN "Invalid verification code"
  ELSE "ok"

\* The message verifyOrderDelivery throws on the order it read, "ok" if none
verifyCheck(order, verificationCode) ==
  IF order.status = "null" THEN "Order not found"
  ELSE IF order.verificationCode # verificationCode THEN "Invalid verification code"
  ELSE IF order.status # "in_transit"
  THEN "Order is not ready for delivery verification"
  ELSE "ok"

\* OrderService.verifyOrderDelivery, lines 363-375: getOrder and the checks
verifyOrderDelivery(u, o, verificationCode) ==
  /\ Free(u)
  /\ budget.life > 0
  /\ budget' = [budget EXCEPT !.life = @ - 1]
  /\ LET order == getOrder(o)
         rec == [Idle EXCEPT !.op = "verifyOrderDelivery", !.orderId = o,
                             !.code = verificationCode]
         check == verifyCheck(order, verificationCode)
     IN call' = [call EXCEPT ![u] =
          IF check # "ok" THEN Done(rec, check)
          ELSE [rec EXCEPT !.pc = "vf_update", !.seen = order.status,
                           !.newStatus = "delivered"]]
  /\ UNCHANGED <<products, carts, orders, tracking, ledger>>

\* OrderService.verifyOrderDelivery, lines 378-383: updateOrderStatus's updateDoc
verifyOrderDelivery_updateOrderStatus(u) ==
  /\ At(u, "vf_update")
  /\ orders' = [orders EXCEPT ![call[u].orderId].status = call[u].newStatus]
  /\ ledger' = [ledger EXCEPT ![call[u].orderId].writes =
                   Append(@, [op |-> "verifyOrderDelivery",
                              status |-> call[u].newStatus])]
  /\ call' = [call EXCEPT ![u].pc = "us_track"]
  /\ UNCHANGED <<products, carts, tracking, budget>>

\* cancelCheck without the test of the status
cancelCheck_anyStatus(order) ==
  IF order.status = "null" THEN "Order not found" ELSE "ok"

\* The message cancelOrder throws on the order it read, "ok" if none
cancelCheck(order) ==
  IF order.status = "null" THEN "Order not found"
  ELSE IF order.status \notin Cancellable
  THEN "Order cannot be cancelled at this stage"
  ELSE "ok"

\* OrderService.cancelOrder, lines 399-407: getOrder and the checks
cancelOrder(u, o) ==
  /\ Free(u)
  /\ budget.life > 0
  /\ budget' = [budget EXCEPT !.life = @ - 1]
  /\ LET order == getOrder(o)
         rec == [Idle EXCEPT !.op = "cancelOrder", !.orderId = o]
         check == cancelCheck(order)
     IN call' = [call EXCEPT ![u] =
          IF check # "ok" THEN Done(rec, check)
          ELSE [rec EXCEPT !.pc = "ca_stock", !.seen = order.status]]
  /\ UNCHANGED <<products, carts, orders, tracking, ledger>>

\* OrderService.cancelOrder, lines 409-417: the transaction body.  The
\* transaction.update of the status is buffered until the commit;
\* ProductService.updateStock is an ordinary write and takes effect at once.
\* It restores order.quantity to order.productId, the fields of the order
\* read at line 399 (both are never rewritten).
cancelOrder_updateStock(u) ==
  /\ At(u, "ca_stock")
  /\ LET c == call[u]
         order == orders[c.orderId]
     IN IF updateStockFails(products, order.productId)
        THEN /\ call' = [call EXCEPT ![u] = Done(c, "Failed to update stock")]
             /\ UNCHANGED <<products, ledger>>
        ELSE /\ products' = updateStock(products, order.productId, order.quantity,
                                        "add")
             /\ ledger' = [ledger EXCEPT ![c.orderId].restored = @ + 1]
             /\ call' = [call EXCEPT ![u].pc = "ca_commit"]
  /\ UNCHANGED <<carts, orders, tracking, budget>>

\* cancelOrder_commit writing a fresh verification code with the status
cancelOrder_commit_recodes(u) ==
  /\ At(u, "ca_commit")
  /\ orders' = [orders EXCEPT ![call[u].orderId].status = "cancelled",
                              ![call[u].orderId].verificationCode = "000000"]
  /\ ledger' = [ledger EXCEPT ![call[u].orderId].writes =
                   Append(@, [op |-> "cancelOrder", status |-> "cancelled"])]
  /\ call' = [call EXCEPT ![u].pc = "ca_track"]
  /\ UNCHANGED <<products, carts, tracking, budget>>

\* OrderService.cancelOrder, line 418: the commit applies the buffered update.
\* The transaction read nothing, so no concurrent write makes it abort.
cancelOrder_commit(u) ==
  /\ At(u, "ca_commit")
  /\ orders' = [orders EXCEPT ![call[u].orderId].status = "cancelled"]
  /\ ledger' = [ledger EXCEPT ![call[u].orderId].writes =
                   Append(@, [op |-> "cancelOrder", status |-> "cancelled"])]
  /\ call' = [call EXCEPT ![u].pc = "ca_track"]
  /\ UNCHANGED <<products, carts, tracking, budget>>

\* OrderService.cancelOrder, lines 421-438: tracking entry, notifications, return
cancelOrder_addTrackingEntry(u) ==
  /\ At(u, "ca_track")
  /\ tracking' = addTrackingEntry(tracking, call[u].orderId, "cancelled")
  /\ call' = [call EXCEPT ![u] = Done(call[u], "ok")]
  /\ UNCHANGED <<products, carts, orders, ledger, budget>>

NextLifecycle ==
  \E u \in Users :
    \/ \E o \in 1..MaxOrders, s \in OrderStatus : updateOrderStatus(u, o, s)
    \/ updateOrderStatus_addTrackingEntry(u)
    \/ \E o \in 1..MaxOrders, code \in Codes : verifyOrderDelivery(u, o, code)
    \/ verifyOrderDelivery_updateOrderStatus(u)
    \/ \E o \in 1..MaxOrders : cancelOrder(u, o)
    \/ cancelOrder_updateStock(u)
    \/ cancelOrder_commit(u)
    \/ cancelOrder_addTrackingEntry(u)

Next == NextCheckout \/ NextLifecycle

Spec == Init /\ [][Next]_vars

\* ------------------------------------------------ failing store accesses
\* A write to the store may fail (network, quota, rules).  budget.faults
\* bounds how many do.  Each action below is the failing outcome of the
\* step of the same name.

Faulty == budget.faults > 0

SpendFault == budget' = [budget EXCEPT !.faults = @ - 1]

\* createSingleOrder line 132: addDoc rejects; runTransaction rejects with it.
createSingleOrder_addDoc_fails(u) ==
  /\ At(u, "addDoc")
  /\ Faulty /\ SpendFault
  /\ call' = [call EXCEPT ![u] = Done(call[u], "FirebaseError")]
  /\ UNCHANGED <<products, carts, orders, tracking, ledger>>

\* createSingleOrder line 136: updateStock's updateDoc rejects; updateStock
\* throws Error('Failed to update stock'), which runTransaction does not retry.
createSingleOrder_updateStock_fails(u) ==
  /\ At(u, "stock")
  /\ Faulty /\ SpendFault
  /\ call' = [call EXCEPT ![u] = Done(call[u], "Failed to update stock")]
  /\ UNCHANGED <<products, carts, orders, tracking, ledger>>

\* createSingleOrder line 140: addTrackingEntry's addDoc rejects.
createSingleOrder_addTrackingEntry_fails(u) ==
  /\ At(u, "track")
  /\ Faulty /\ SpendFault
  /\ call' = [call EXCEPT ![u] = Done(call[u], "Failed to add tracking entry")]
  /\ UNCHANGED <<products, carts, orders, tracking, ledger>>

\* createSingleOrder lines 97 and 153: the commit that follows the body
\* rejects.  The body wrote the order, the stock and the tracking entry
\* outside the transaction, so they stay.  runTransaction runs the body again
\* when the error is retryable, and rejects with it otherwise.
createSingleOrder_commit_fails(u) ==
  /\ At(u, "track")
  /\ Faulty /\ SpendFault
  /\ tracking' = addTrackingEntry(tracking, call[u].orderRef, "pending")
  /\ \/ /\ Len(orders) + SumReserved(Active \ {u}) + Reserved(u) + 1
               <= budget.orders
        /\ call' = [call EXCEPT ![u].pc = "addDoc", ![u].orderRef = 0]
     \/ call' = [call EXCEPT ![u] = Done(call[u], "FirebaseError")]
  /\ UNCHANGED <<products, carts, orders, ledger>>

\* createOrderFromCart line 79: clearCart's updateDoc rejects.
createOrderFromCart_clearCart_fails(u) ==
  /\ At(u, "clear")
  /\ Faulty /\ SpendFault
  /\ call' = [call EXCEPT ![u] = Done(call[u], "Failed to clear cart")]
  /\ UNCHANGED <<products, carts, orders, tracking, ledger>>

\* updateOrderStatus line 282: updateDoc rejects; the catch rethrows.
updateOrderStatus_fails(u, o, newStatus) ==
  /\ Free(u)
  /\ budget.life > 0
  /\ Faulty
  /\ o \in DOMAIN orders
  /\ budget' = [budget EXCEPT !.life = @ - 1, !.faults = @ - 1]
  /\ call' = [call EXCEPT ![u] =
       Done([Idle EXCEPT !.op = "updateOrderStatus", !.orderId = o],
            "Failed to update order status")]
  /\ UNCHANGED <<products, carts, orders, tracking, ledger>>

\* updateOrderStatus line 285: addTrackingEntry rejects after the status was
\* written; the catch rethrows.
updateOrderStatus_addTrackingEntry_fails(u) ==
  /\ At(u, "us_track")
  /\ Faulty /\ SpendFault
  /\ call' = [call EXCEPT ![u] = Done(call[u], "Failed to update order status")]
  /\ UNCHANGED <<products, carts, orders, tracking, ledger>>

\* cancelOrder going on to the commit although updateStock rejected
cancelOrder_updateStock_fails_swallowed(u) ==
  /\ At(u, "ca_stock")
  /\ Faulty /\ SpendFault
  /\ call' = [call EXCEPT ![u].pc = "ca_commit"]
  /\ UNCHANGED <<products, carts, orders, tracking, ledger>>

\* cancelOrder line 417: updateStock rejects inside the transaction body;
\* the buffered status update is dropped.
cancelOrder_updateStock_fails(u) ==
  /\ At(u, "ca_stock")
  /\ Faulty /\ SpendFault
  /\ call' = [call EXCEPT ![u] = Done(call[u], "Failed to update stock")]
  /\ UNCHANGED <<products, carts, orders, tracking, ledger>>

\* cancelOrder line 418: the commit rejects.  runTransaction runs the body
\* again when the error is retryable, and rejects with it otherwise; the
\* stock was already restored by the body.
cancelOrder_commit_fails(u) ==
  /\ At(u, "ca_commit")
  /\ Faulty /\ SpendFault
  /\ \/ call' = [call EXCEPT ![u].pc = "ca_stock"]
     \/ call' = [call EXCEPT ![u] = Done(call[u], "FirebaseError")]
  /\ UNCHANGED <<products, carts, orders, tracking, ledger>>

\* cancelOrder line 421: addTrackingEntry rejects after the commit.
cancelOrder_addTrackingEntry_fails(u) ==
  /\ At(u, "ca_track")
  /\ Faulty /\ SpendFault
  /\ call' = [call EXCEPT ![u] = Done(call[u], "Failed to add tracking entry")]
  /\ UNCHANGED <<products, carts, orders, tracking, ledger>>

\* sendOrderNotifications with the dispatch error thrown on to the caller
sendOrderNotifications_throws(dispatch) ==
  IF dispatch = "fails" THEN "Failed to send notifications" ELSE "ok"

\* OrderService.sendOrderNotifications: what the caller sees of a dispatch
\* that was "sent" or that "fails"; the catch swallows every error.
sendOrderNotifications(dispatch) == "ok"

\* createSingleOrder lines 140-152 with a notification dispatch that fails
\* (line 143), after the tracking entry was added.
createSingleOrder_sendOrderNotifications_fails(u) ==
  /\ At(u, "track")
  /\ Faulty /\ SpendFault
  /\ LET c == call[u]
         pushed == [c EXCEPT !.orderIds = Append(@, c.orderRef), !.orderRef = 0]
         sent == sendOrderNotifications("fails")
     IN /\ tracking' = addTrackingEntry(tracking, c.orderRef, "pending")
        /\ ledger' = [ledger EXCEPT ![c.orderRef].unsent = @ + 1]
        /\ call' = [call EXCEPT ![u] =
                      IF sent # "ok" THEN Done(c, sent)
                      ELSE IF c.pi < Len(Partitions(u))
                      THEN [pushed EXCEPT !.pc = "addDoc", !.pi = c.pi + 1]
                      ELSE [pushed EXCEPT !.pc = "clear"]]
  /\ UNCHANGED <<products, carts, orders>>

\* updateOrderStatus lines 285-305 with a notification dispatch that fails
\* (line 295), after the tracking entry was added.
updateOrderStatus_sendOrderNotifications_fails(u) ==
  /\ At(u, "us_track")
  /\ Faulty /\ SpendFault
  /\ LET sent == sendOrderNotifications("fails")
     IN /\ tracking' = addTrackingEntry(tracking, call[u].orderId,
                                         call[u].newStatus)
        /\ ledger' = [ledger EXCEPT ![call[u].orderId].unsent = @ + 1]
        /\ call' = [call EXCEPT ![u] =
                      IF sent # "ok"
                      THEN Done(call[u], "Failed to update order status")
                      ELSE Done(call[u], "ok")]
  /\ UNCHANGED <<products, carts, orders>>

\* cancelOrder lines 421-438 with a notification dispatch that fails
\* (line 429), after the tracking entry was added.
cancelOrder_sendOrderNotifications_fails(u) ==
  /\ At(u, "ca_track")
  /\ Faulty /\ SpendFault
  /\ LET sent == sendOrderNotifications("fails")
     IN /\ tracking' = addTrackingEntry(tracking, call[u].orderId, "cancelled")
        /\ ledger' = [ledger EXCEPT ![call[u].orderId].unsent = @ + 1]
        /\ call' = [call EXCEPT ![u] = Done(call[u], sent)]
  /\ UNCHANGED <<products, carts, orders>>

NextFault ==
  \/ Next
  \/ \E u \in Users :
       \/ createSingleOrder_sendOrderNotifications_fails(u)
       \/ updateOrderStatus_sendOrderNotifications_fails(u)
       \/ cancelOrder_sendOrderNotifications_fails(u)
       \/ createSingleOrder_addDoc_fails(u)
       \/ createSingleOrder_updateStock_fails(u)
       \/ createSingleOrder_addTrackingEntry_fails(u)
       \/ createSingleOrder_commit_fails(u)
       \/ createOrderFromCart_clearCart_fails(u)
       \/ \E o \in 1..MaxOrders, s \in OrderStatus : updateOrderStatus_fails(u, o, s)
       \/ updateOrderStatus_addTrackingEntry_fails(u)
       \/ cancelOrder_updateStock_fails(u)
       \/ cancelOrder_commit_fails(u)
       \/ cancelOrder_addTrackingEntry_fails(u)

\* One user working alone while store writes may fail
InitFault == Start({"p1", "p2"}, {"u1"}, MaxOrders, FaultLifecycle, MaxFaults)

SpecFault == InitFault /\ [][NextFault]_vars

\* Two buyers checking out concurrently, over the whole catalogue
InitCheckout == Start(Products, Users, MaxOrders, 0, 0)

SpecCheckout == InitCheckout /\ [][NextCheckout]_vars

\* Two actors working concurrently on the order of one product
InitRace == Start({"p1"}, Users, RaceOrders, RaceLifecycle, 0)

SpecRace == InitRace /\ [][Next]_vars

\* The step that the call in progress of user u takes when the store access
\* it awaits completes
Continue(u) ==
  \/ validateCartForCheckout(u)
  \/ createSingleOrder_addDoc(u)
  \/ createSingleOrder_updateStock(u)
  \/ createSingleOrder_addTrackingEntry(u)
  \/ createOrderFromCart_clearCart(u)
  \/ updateOrderStatus_addTrackingEntry(u)
  \/ verifyOrderDelivery_updateOrderStatus(u)
  \/ cancelOrder_updateStock(u)
  \/ cancelOrder_commit(u)
  \/ cancelOrder_addTrackingEntry(u)

\* SpecRace with every awaited store access completing eventually: the store
\* answers each request, whatever the other user does meanwhile
SpecLive ==
  InitRace /\ [][Next]_vars /\ \A u \in Users : WF_vars(Continue(u))

\* What the caller of createOrderFromCart receives about the orders created:
\* the returned orderIds (line 81); when the call throws, the catch rethrows
\* the error alone (lines 82-85) and the local orderIds is gone.
Surfaced(rec) == IF rec.result = "ok" THEN rec.orderIds ELSE <<>>

NextCheckoutFault ==
  \/ NextCheckout
  \/ \E u \in Users :
       \/ createSingleOrder_addDoc_fails(u)
       \/ createSingleOrder_updateStock_fails(u)
       \/ createSingleOrder_addTrackingEntry_fails(u)
       \/ createSingleOrder_commit_fails(u)
       \/ createOrderFromCart_clearCart_fails(u)
       \/ createSingleOrder_sendOrderNotifications_fails(u)

\* One buyer checking out a cart of two sellers while store writes may fail
InitPartial == Start({"p1", "p3"}, {"u1"}, MaxOrders, 0, MaxFaults)

SpecPartial == InitPartial /\ [][NextCheckoutFault]_vars

\* ------------------------------------- CartService: the other cart methods

MaxEdits == 2       \* updateProduct / deleteProduct calls of the sellers
MaxRestock == 2     \* largest stock a seller sets with updateProduct
PriceDrift == 500   \* amount by which a seller raises a price
CartOrders == 1     \* order documents ever created under SpecCart

\* cartDocument with totalItems counting the lines, not their quantities
cartDocument_countsLines(items) ==
  [exists |-> TRUE, items |-> items,
   totalItems |-> Len(items),
   totalAmount |-> calculateCartTotals(items).totalAmount]

\* The cart document after updateDoc wrote items and the totals computed
\* from them (lines 586-591, 638-643, 667-672, 684-689, 845-850)
cartDocument(items) ==
  [exists |-> TRUE, items |-> items,
   totalItems |-> calculateCartTotals(items).totalItems,
   totalAmount |-> calculateCartTotals(items).totalAmount]

\* CartService.removeFromCart (whole handler): getCart, filter, updateDoc
removeFromCart(u, p) ==
  /\ Free(u)
  /\ LET cart == getCart(u)
         updatedItems == SelectSeq(cart.items, LAMBDA item : item.productId # p)
     IN /\ carts' = [carts EXCEPT ![u] = cartDocument(updatedItems)]
        /\ call' = [call EXCEPT ![u] =
                      Done([Idle EXCEPT !.op = "removeFromCart"], "ok")]
  /\ UNCHANGED <<products, orders, tracking, ledger, budget>>

\* updateCartItemQuantity storing the quantity 0 in the line instead of
\* removing the line
updateCartItemQuantity_keepsLine(u, p, quantity) ==
  /\ Free(u)
  /\ LET product == getProduct(p)
         cart == getCart(u)
         updatedItems ==
           [i \in 1..Len(cart.items) |->
              IF cart.items[i].productId = p
              THEN [cart.items[i] EXCEPT !.quantity = quantity]
              ELSE cart.items[i]]
         rec == [Idle EXCEPT !.op = "updateCartItemQuantity"]
     IN IF quantity < 0
        THEN /\ call' = [call EXCEPT ![u] = Done(rec, "Quantity cannot be negative")]
             /\ UNCHANGED carts
        ELSE IF product = NoProduct
        THEN /\ call' = [call EXCEPT ![u] = Done(rec, "Product not found")]
             /\ UNCHANGED carts
        ELSE IF quantity > product.stock
        THEN /\ call' = [call EXCEPT ![u] =
                           Done(rec, "Quantity exceeds available stock")]
             /\ UNCHANGED carts
        ELSE /\ call' = [call EXCEPT ![u] = Done(rec, "ok")]
             /\ carts' = [carts EXCEPT ![u] = cartDocument(updatedItems)]
  /\ UNCHANGED <<products, orders, tracking, ledger, budget>>

\* CartService.updateCartItemQuantity (whole handler).  Quantity 0 returns
\* what removeFromCart does (line 615); the product is read before the cart.
updateCartItemQuantity(u, p, quantity) ==
  /\ Free(u)
  /\ LET product == getProduct(p)
         cart == getCart(u)
         updatedItems ==
           [i \in 1..Len(cart.items) |->
              IF cart.items[i].productId = p
              THEN [cart.items[i] EXCEPT !.quantity = quantity]
              ELSE cart.items[i]]
         rec == [Idle EXCEPT !.op = "updateCartItemQuantity"]
     IN IF quantity < 0
        THEN /\ call' = [call EXCEPT ![u] = Done(rec, "Quantity cannot be negative")]
             /\ UNCHANGED carts
        ELSE IF quantity = 0
        THEN /\ call' = [call EXCEPT ![u] = Done(rec, "ok")]
             /\ carts' = [carts EXCEPT ![u] =
                            cartDocument(SelectSeq(cart.items,
                                           LAMBDA item : item.productId # p))]
        ELSE IF product = NoProduct
        THEN /\ call' = [call EXCEPT ![u] = Done(rec, "Product not found")]
             /\ UNCHANGED carts
        ELSE IF quantity > product.stock
        THEN /\ call' = [call EXCEPT ![u] =
                           Done(rec, "Quantity exceeds available stock")]
             /\ UNCHANGED carts
        ELSE /\ call' = [call EXCEPT ![u] = Done(rec, "ok")]
             /\ carts' = [carts EXCEPT ![u] = cartDocument(updatedItems)]
  /\ UNCHANGED <<products, orders, tracking, ledger, budget>>

\* CartService.clearCart (whole handler): updateDoc, which rejects when the
\* cart document does not exist; the catch throws 'Failed to clear cart'.
clearCart(u) ==
  /\ Free(u)
  /\ LET rec == [Idle EXCEPT !.op = "clearCart"]
     IN IF carts[u].exists
        THEN /\ carts' = [carts EXCEPT ![u] = cartDocument(<<>>)]
             /\ call' = [call EXCEPT ![u] = Done(rec, "ok")]
        ELSE /\ call' = [call EXCEPT ![u] = Done(rec, "Failed to clear cart")]
             /\ UNCHANGED carts
  /\ UNCHANGED <<products, orders, tracking, ledger, budget>>

\* What validateCartForCheckout returns as isValid (line 800)
isValid(errors) == Len(errors) = 0

\* CartService.validateCartForCheckout called on its own (CartScreen
\* handlePlaceOrder), lines 756-763: getCart and the empty-cart test.  The
\* loop is validateCartForCheckout(u); the method returns its findings and
\* does not throw.  The call starts from the reads of the sync that u
\* completed just before, if any; seen tells whether every read so far
\* returned what that sync had read.
validateCartForCheckout_getCart(u) ==
  /\ Free(u)
  /\ LET cart == getCart(u)
         synced == /\ call[u].op = "syncCartWithLatestData"
                   /\ call[u].result = "ok"
         rec == [Idle EXCEPT !.op = "validateCartForCheckout",
                             !.read = IF synced THEN call[u].read ELSE <<>>,
                             !.seen = IF synced THEN "synced" ELSE "none"]
     IN /\ carts' = [carts EXCEPT ![u] = cart]
        /\ IF cart.items = <<>>
           THEN call' = [call EXCEPT ![u] =
                           Done([rec EXCEPT !.errors = <<"Cart is empty">>], "ok")]
           ELSE call' = [call EXCEPT ![u] =
                           [rec EXCEPT !.pc = "validate", !.items = cart.items,
                                       !.vi = 1]]
  /\ UNCHANGED <<products, orders, tracking, ledger, budget>>

\* Math.min
Min(a, b) == IF a < b THEN a ELSE b

\* syncItem taking one unit off every line it keeps
syncItem_decrements(cartItem, latestProduct) ==
  IF latestProduct = NoProduct \/ latestProduct.status # "active"
  THEN [items |-> <<>>, hasChanges |-> TRUE]
  ELSE LET adjustedQuantity == Min(cartItem.quantity, latestProduct.stock) - 1
       IN IF adjustedQuantity > 0
          THEN [items |-> <<[cartItem EXCEPT !.product = latestProduct,
                                             !.quantity = adjustedQuantity]>>,
                hasChanges |-> TRUE]
          ELSE [items |-> <<>>, hasChanges |-> TRUE]

\* syncItem keeping the quantity of the line whatever the stock is
syncItem_keepsQuantity(cartItem, latestProduct) ==
  IF latestProduct = NoProduct \/ latestProduct.status # "active"
  THEN [items |-> <<>>, hasChanges |-> TRUE]
  ELSE [items |-> <<[cartItem EXCEPT !.product = latestProduct]>>,
        hasChanges |-> latestProduct # cartItem.product]

\* syncItem keeping the snapshot stored in the cart line
syncItem_keepsSnapshot(cartItem, latestProduct) ==
  IF latestProduct = NoProduct \/ latestProduct.status # "active"
  THEN [items |-> <<>>, hasChanges |-> TRUE]
  ELSE LET adjustedQuantity == Min(cartItem.quantity, latestProduct.stock)
       IN IF adjustedQuantity > 0
          THEN [items |-> <<[cartItem EXCEPT !.quantity = adjustedQuantity]>>,
                hasChanges |-> adjustedQuantity # cartItem.quantity
                                 \/ latestProduct # cartItem.product]
          ELSE [items |-> <<>>, hasChanges |-> TRUE]

\* syncCartWithLatestData, lines 817-841: what one cart line contributes to
\* updatedItems and to hasChanges, given the product document read for it
syncItem(cartItem, latestProduct) ==
  IF latestProduct = NoProduct \/ latestProduct.status # "active"
  THEN [items |-> <<>>, hasChanges |-> TRUE]
  ELSE LET adjustedQuantity == Min(cartItem.quantity, latestProduct.stock)
       IN IF adjustedQuantity > 0
          THEN [items |-> <<[cartItem EXCEPT !.product = latestProduct,
                                             !.quantity = adjustedQuantity]>>,
                hasChanges |-> adjustedQuantity # cartItem.quantity
                                 \/ latestProduct # cartItem.product]
          ELSE [items |-> <<>>, hasChanges |-> TRUE]

\* CartService.syncCartWithLatestData, lines 812-815: getCart.  read maps
\* each productId to the document getProduct returned for it; the call starts
\* from the reads of the sync that u completed just before, if any, and seen
\* tells whether every read so far returned what that sync had read.
syncCartWithLatestData(u) ==
  /\ Free(u)
  /\ LET cart == getCart(u)
         repeats == /\ call[u].op = "syncCartWithLatestData"
                    /\ call[u].result = "ok"
         rec == [Idle EXCEPT !.op = "syncCartWithLatestData",
                             !.read = IF repeats THEN call[u].read ELSE <<>>,
                             !.seen = IF repeats THEN "repeat" ELSE "none"]
     IN /\ carts' = [carts EXCEPT ![u] = cart]
        /\ IF cart.items = <<>>
           THEN call' = [call EXCEPT ![u] = Done(rec, "ok")]
           ELSE call' = [call EXCEPT ![u] =
                           [rec EXCEPT !.pc = "sync", !.items = cart.items,
                                       !.vi = 1]]
  /\ UNCHANGED <<products, orders, tracking, ledger, budget>>

\* CartService.syncCartWithLatestData, lines 817-853: one iteration of the
\* loop (one getProduct); after the last line, the updateDoc when hasChanges.
syncCartWithLatestData_getProduct(u) ==
  /\ At(u, "sync")
  /\ LET c == call[u]
         cartItem == c.items[c.vi]
         latestProduct == getProduct(cartItem.productId)
         line == syncItem(cartItem, latestProduct)
         updatedItems == c.updatedItems \o line.items
         hasChanges == c.hasChanges \/ line.hasChanges
         same == /\ cartItem.productId \in DOMAIN c.read
                 /\ c.read[cartItem.productId] = latestProduct
         next == [c EXCEPT !.updatedItems = updatedItems,
                           !.hasChanges = hasChanges,
                           !.seen = IF same THEN c.seen ELSE "none",
                           !.read = withRead(@, cartItem.productId, latestProduct)]
     IN IF c.vi < Len(c.items)
        THEN /\ call' = [call EXCEPT ![u] = [next EXCEPT !.vi = c.vi + 1]]
             /\ UNCHANGED carts
        ELSE /\ call' = [call EXCEPT ![u] = Done(next, "ok")]
             /\ carts' = [carts EXCEPT ![u] =
                            IF hasChanges THEN cartDocument(updatedItems)
                            ELSE carts[u]]
  /\ UNCHANGED <<products, orders, tracking, ledger, budget>>

\* ---------------------------------------------- ProductService: sellers

\* A seller may still edit the catalogue
CanEdit == budget.edits > 0

SpendEdit == budget' = [budget EXCEPT !.edits = @ - 1]

\* The partial documents the sellers pass to updateProduct for product p:
\* a price, a status (AddProductScreen handleToggleStatus) or a stock
ProductUpdates(p) ==
  {[price |-> Catalogue(Products)[p].price + d] : d \in {0, PriceDrift}}
    \cup {[status |-> s] : s \in {"active", "inactive"}}
    \cup {[stock |-> n] : n \in 0..MaxRestock}

\* ProductService.updateProduct: updateDoc merges the given fields into the
\* document; on a missing document it rejects and nothing is written.
updateProduct(p, updates) ==
  /\ CanEdit
  /\ SpendEdit
  /\ p \in DOMAIN products
  /\ products' = [products EXCEPT ![p] =
                    [f \in DOMAIN products[p] |->
                       IF f \in DOMAIN updates THEN updates[f]
                       ELSE products[p][f]]]
  /\ UNCHANGED <<carts, orders, tracking, ledger, call>>

\* ProductService.deleteProduct: getProduct, then deleteDoc of the document
deleteProduct(p) ==
  /\ CanEdit
  /\ SpendEdit
  /\ p \in DOMAIN products
  /\ products' = [q \in DOMAIN products \ {p} |-> products[q]]
  /\ UNCHANGED <<carts, orders, tracking, ledger, call>>

NextSeller ==
  \E p \in Products :
    \/ \E updates \in ProductUpdates(p) : updateProduct(p, updates)
    \/ deleteProduct(p)

NextCart ==
  \/ NextCheckout
  \/ \E u \in Users :
       \/ \E p \in Products, q \in -1..MaxQty : updateCartItemQuantity(u, p, q)
       \/ \E p \in Products : removeFromCart(u, p)
       \/ clearCart(u)
       \/ validateCartForCheckout_getCart(u)
       \/ validateCartForCheckout(u)
       \/ syncCartWithLatestData(u)
       \/ syncCartWithLatestData_getProduct(u)
  \/ NextSeller

\* One buyer working on the cart and checking out while the sellers edit the
\* catalogue
InitCart ==
  /\ products = Catalogue({"p1", "p2"})
  /\ carts = [u \in {"u1"} |-> EmptyCart]
  /\ orders = <<>>
  /\ tracking = <<>>
  /\ ledger = <<>>
  /\ call = [u \in {"u1"} |-> Idle]
  /\ budget = [orders |-> CartOrders, life |-> 0, faults |-> 0,
               edits |-> MaxEdits]

SpecCart == InitCart /\ [][NextCart]_vars

\* ---------------------------------------------------------------- pricing
\* Amounts of a summary are held in hundredths of a naira, so that the tax,
\* subtotal * 0.05, is the whole number subtotal * 5.

TaxPercent == 5            \* subtotal * 0.05
FreeDeliveryAbove == 10000 \* subtotal > 10000 ? 0 : 1000
FlatDeliveryFee == 1000

\* CartService.getCartSummary, lines 901-917: the summary of the cart read
getCartSummary_summary(cart) ==
  LET subtotal == cart.totalAmount
      tax == subtotal * TaxPercent
      deliveryFee == IF subtotal > FreeDeliveryAbove THEN 0 ELSE FlatDeliveryFee
  IN [subtotal |-> subtotal * 100, tax |-> tax,
      deliveryFee |-> deliveryFee * 100,
      total |-> subtotal * 100 + tax + deliveryFee * 100,
      itemCount |-> cart.totalItems]

\* CartScreen renderCartSummary, lines 164-170: the amounts it shows, null
\* when the cart has no line
renderCartSummary(cart) ==
  IF Len(cart.items) = 0 THEN null
  ELSE LET subtotal == cart.totalAmount
           tax == subtotal * TaxPercent
           deliveryFee == IF subtotal > FreeDeliveryAbove THEN 0
                          ELSE FlatDeliveryFee
       IN [subtotal |-> subtotal * 100, tax |-> tax,
           deliveryFee |-> deliveryFee * 100,
           total |-> subtotal * 100 + tax + deliveryFee * 100]

\* calculateOrderSummary giving free delivery from 10000 on
calculateOrderSummary_freeFrom(cart) ==
  IF Len(cart.items) = 0 THEN null
  ELSE LET subtotal == cart.totalAmount
           tax == subtotal * TaxPercent
           deliveryFee == IF subtotal >= FreeDeliveryAbove THEN 0
                          ELSE FlatDeliveryFee
       IN [subtotal |-> subtotal * 100, tax |-> tax,
           deliveryFee |-> deliveryFee * 100,
           total |-> subtotal * 100 + tax + deliveryFee * 100]

\* Checkout screen calculateOrderSummary, lines 598-607
calculateOrderSummary(cart) ==
  IF Len(cart.items) = 0 THEN null
  ELSE LET subtotal == cart.totalAmount
           tax == subtotal * TaxPercent
           deliveryFee == IF subtotal > FreeDeliveryAbove THEN 0
                          ELSE FlatDeliveryFee
       IN [subtotal |-> subtotal * 100, tax |-> tax,
           deliveryFee |-> deliveryFee * 100,
           total |-> subtotal * 100 + tax + deliveryFee * 100]

\* CartService.getCartSummary (whole handler): getCart, then the summary
getCartSummary(u) ==
  /\ Free(u)
  /\ LET cart == getCart(u)
     IN /\ carts' = [carts EXCEPT ![u] = cart]
        /\ call' = [call EXCEPT ![u] =
                      Done([Idle EXCEPT !.op = "getCartSummary",
                                        !.summary = getCartSummary_summary(cart)],
                           "ok")]
  /\ UNCHANGED <<products, orders, tracking, ledger, budget>>

\* The cart the screens hold: what subscribeToCart last delivered, the stored
\* document, or an empty cart when there is none (lines 719-739)
subscribeToCart(u) ==
  [items |-> carts[u].items, totalItems |-> carts[u].totalItems,
   totalAmount |-> carts[u].totalAmount]

\* The cart screen renders its summary
CartScreen_renderCartSummary(u) ==
  /\ Free(u)
  /\ call' = [call EXCEPT ![u] =
                Done([Idle EXCEPT !.op = "renderCartSummary",
                                  !.summary = renderCartSummary(subscribeToCart(u))],
                     "ok")]
  /\ UNCHANGED <<products, carts, orders, tracking, ledger, budget>>

\* The checkout screen computes the summary it shows on the order button
CartScreen_calculateOrderSummary(u) ==
  /\ Free(u)
  /\ call' = [call EXCEPT ![u] =
                Done([Idle EXCEPT !.op = "calculateOrderSummary",
                                  !.summary =
                                    calculateOrderSummary(subscribeToCart(u))],
                     "ok")]
  /\ UNCHANGED <<products, carts, orders, tracking, ledger, budget>>

\* Prices the sellers gave their products
Prices == {2500, 5000, 5001, 10000, 10001}

NextPricing ==
  \E u \in Users :
    \/ \E p \in Products, q \in 1..MaxQty : addToCart(u, p, q)
    \/ clearCart(u)
    \/ getCartSummary(u)
    \/ CartScreen_renderCartSummary(u)
    \/ CartScreen_calculateOrderSummary(u)

\* One buyer looking at the cart over products of any of the prices
InitPricing ==
  /\ \E x \in Prices, y \in Prices :
       products = [p \in {"p1", "p2"} |->
                     [sellerId |-> "s1", price |-> IF p = "p1" THEN x ELSE y,
                      stock |-> MaxRestock, status |-> "active"]]
  /\ carts = [u \in {"u1"} |-> EmptyCart]
  /\ orders = <<>>
  /\ tracking = <<>>
  /\ ledger = <<>>
  /\ call = [u \in {"u1"} |-> Idle]
  /\ budget = [orders |-> 0, life |-> 0, faults |-> 0]

SpecPricing == InitPricing /\ [][NextPricing]_vars

\* ================================================================ claims

\* No call is in progress
Quiet == \A u \in Active : Free(u)

\* The legal transition table of the order state machine
LegalTransitions ==
  {<<"pending", "payment_verified">>, <<"pending", "cancelled">>,
   <<"payment_verified", "rider_assigned">>, <<"payment_verified", "cancelled">>,
   <<"rider_assigned", "picked_up">>, <<"rider_assigned", "cancelled">>,
   <<"picked_up", "in_transit">>, <<"in_transit", "delivered">>}

\* The error kind each thrown message stands for
ErrorKind(message) ==
  CASE message = "Invalid verification code" -> "InvalidVerificationCode"
    [] message = "Order is not ready for delivery verification" -> "IllegalTransition"
    [] message = "Order cannot be cancelled at this stage" -> "IllegalTransition"
    [] message = "Order not found" -> "NotFound"
    [] message = "Product not found" -> "NotFound"
    [] message = "Insufficient stock available" -> "ProductUnavailable"
    [] message = "Cannot add more items than available stock" -> "ProductUnavailable"
    [] message = "Quantity exceeds available stock" -> "ProductUnavailable"
    [] message = "Quantity cannot be negative" -> "InvalidQuantity"
    [] OTHER -> "Error"

\* Order o was fully created: every line decremented, initial entry appended
Created(o) ==
  /\ ledger[o].decremented = Len(ledger[o].lines)
  /\ Len(tracking[o]) >= 1

RECURSIVE LineQuantity(_, _)
LineQuantity(lines, p) ==
  IF lines = <<>> THEN 0
  ELSE (IF Head(lines).productId = p THEN Head(lines).quantity ELSE 0)
       + LineQuantity(Tail(lines), p)

RECURSIVE QuantityOrdered(_, _)
\* Units of product p in the fully created orders 1..n
QuantityOrdered(n, p) ==
  IF n = 0 THEN 0
  ELSE (IF Created(n) THEN LineQuantity(ledger[n].lines, p) ELSE 0)
       + QuantityOrdered(n - 1, p)

\* Since its creation, the status of order o was written by cancelOrder only
OnlyCancelled(o) ==
  \A i \in 2..Len(ledger[o].writes) : ledger[o].writes[i].op = "cancelOrder"

\* Every status written to order o so far was a legal successor of the one
\* it replaced
LegalHistory(o) ==
  \A i \in 2..Len(ledger[o].writes) :
    <<ledger[o].writes[i - 1].status, ledger[o].writes[i].status>>
      \in LegalTransitions

\* The number of times verifyOrderDelivery wrote the status of order o
Verified(o) ==
  Cardinality({i \in 1..Len(ledger[o].writes) :
                 ledger[o].writes[i].op = "verifyOrderDelivery"})

\* C1: in every reachable state every product's stock is >= 0.
C1_StockNonNegative == \A p \in DOMAIN products : products[p].stock >= 0

\* C2: the units of a product in the successfully created orders never exceed
\* its initial stock N; with N = 1 and two buyers checking out one unit each,
\* exactly one checkout creates its order and the stock ends at 0.
C2_NoOversell ==
  \A p \in DOMAIN products : QuantityOrdered(Len(orders), p) <= MaxStock

\* C3: create-then-cancel is a round trip on stock.  When the only order ever
\* created was cancelled once by cancelOrder and nothing is in progress, every
\* product's stock is what it was before the order was created.
C3_CancelRoundTrip ==
  ( /\ Quiet
    /\ Len(orders) = 1
    /\ Created(1)
    /\ orders[1].status = "cancelled"
    /\ ledger[1].restored = 1 )
  => \A p \in DOMAIN products : products[p].stock = MaxStock

\* C4: an updateOrderStatus call whose (current status, requested status) pair
\* is not in the legal table fails and changes neither the order nor the log.
C4_IllegalTransitionRejected ==
  [][\A u \in Active, o \in 1..MaxOrders, s \in OrderStatus :
       ( /\ updateOrderStatus(u, o, s)
         /\ o \in DOMAIN orders
         /\ <<orders[o].status, s>> \notin LegalTransitions )
       => /\ orders' = orders
          /\ tracking' = tracking
          /\ call'[u].pc = "done"
          /\ ErrorKind(call'[u].result) = "IllegalTransition"]_vars

\* C5: concurrent status changes on one order are serialized.  On an order
\* whose status went through legal transitions only, the write of a call that
\* checked the status (cancelOrder, verifyOrderDelivery) is applied only where
\* the status committed by then still allows it: the status it writes is a
\* legal successor of the status it replaces.
C5_WritersSerialized ==
  [][\A u \in Active :
       /\ (cancelOrder_commit(u) /\ LegalHistory(call[u].orderId))
            => <<orders[call[u].orderId].status, "cancelled">> \in LegalTransitions
       /\ (verifyOrderDelivery_updateOrderStatus(u) /\ LegalHistory(call[u].orderId))
            => <<orders[call[u].orderId].status, "delivered">> \in LegalTransitions]_vars

\* C6: however two or more cancelOrder calls on one order interleave, the
\* order's quantity is added back to stock at most once.
C6_RestoredAtMostOnce ==
  \A o \in DOMAIN orders : OnlyCancelled(o) => ledger[o].restored <= 1

\* C7: once a cancelOrder call has completed, with success or with an error,
\* the order is cancelled if and only if its quantity was added back to stock
\* exactly once.
C7_CancelAtomic ==
  \A u \in Active :
    ( /\ call[u].pc = "done"
      /\ call[u].op = "cancelOrder"
      /\ call[u].orderId \in DOMAIN orders
      /\ OnlyCancelled(call[u].orderId) )
    => ( orders[call[u].orderId].status = "cancelled"
         <=> ledger[call[u].orderId].restored = 1 )

\* C8: creation of a seller partition is all-or-nothing.  Whenever no call is
\* in progress, every order document has the stock of each of its lines
\* decremented and its initial tracking entry.
C8_CreationAllOrNothing ==
  Quiet => \A o \in DOMAIN orders : Created(o)

\* The condition under which verifyOrderDelivery is to succeed
VerifyAccepts(o, code) ==
  /\ o \in DOMAIN orders
  /\ orders[o].status = "in_transit"
  /\ orders[o].verificationCode = code

\* C9: verifyOrderDelivery succeeds iff the order it reads is in_transit and
\* the code is the stored one.  An accepted call writes delivered and then
\* returns; in every other case the call fails at once and writes nothing.
C9_VerifyIff ==
  [][\A u \in Active :
       /\ \A o \in 1..MaxOrders, code \in Codes :
            verifyOrderDelivery(u, o, code) =>
              IF VerifyAccepts(o, code)
              THEN call'[u].pc = "vf_update"
              ELSE /\ call'[u].pc = "done"
                   /\ call'[u].result # "ok"
                   /\ orders' = orders
                   /\ tracking' = tracking
       /\ (call[u].op = "verifyOrderDelivery" /\ call[u].pc = "vf_update")
            => /\ call'[u].pc \in {"vf_update", "us_track"}
               /\ call'[u].pc = "us_track"
                    => orders'[call[u].orderId].status = "delivered"
       /\ (call[u].op = "verifyOrderDelivery" /\ call[u].pc = "us_track")
            => \/ call'[u] = call[u]
               \/ /\ call'[u].pc = "done"
                  /\ call'[u].result = "ok"]_vars

\* A verification that succeeded: the call returned ok and the order is delivered
C9_Witness ==
  \E u \in Active :
    /\ call[u].pc = "done"
    /\ call[u].op = "verifyOrderDelivery"
    /\ call[u].result = "ok"
    /\ orders[call[u].orderId].status = "delivered"
    /\ Verified(call[u].orderId) = 1

\* C10 as stated: a code that differs fails with InvalidVerificationCode, and
\* a call on an order that is not in_transit fails with IllegalTransition.
C10_ErrorKindsAsStated ==
  [][\A u \in Active, o \in 1..MaxOrders, code \in Codes :
       (verifyOrderDelivery(u, o, code) /\ o \in DOMAIN orders)
       => /\ orders[o].verificationCode # code
               => ErrorKind(call'[u].result) = "InvalidVerificationCode"
          /\ orders[o].status # "in_transit"
               => ErrorKind(call'[u].result) = "IllegalTransition"]_vars

\* C10, amended: a code that differs fails with InvalidVerificationCode; a
\* call with the stored code on an order that is not in_transit fails with
\* IllegalTransition, leaving the status and the tracking log as they were
\* (so repeating a successful verification fails with IllegalTransition).
C10_ErrorKinds ==
  [][\A u \in Active, o \in 1..MaxOrders, code \in Codes :
       (verifyOrderDelivery(u, o, code) /\ o \in DOMAIN orders)
       => /\ orders[o].verificationCode # code
               => /\ call'[u].pc = "done"
                  /\ ErrorKind(call'[u].result) = "InvalidVerificationCode"
          /\ (orders[o].verificationCode = code /\ orders[o].status # "in_transit")
               => /\ call'[u].pc = "done"
                  /\ ErrorKind(call'[u].result) = "IllegalTransition"
                  /\ orders' = orders
                  /\ tracking' = tracking]_vars

\* A verification repeated after it succeeded: rejected as an illegal
\* transition, the order still delivered, the log ending with the one
\* delivered entry.
C10_Witness ==
  \E u \in Active :
    /\ call[u].pc = "done"
    /\ call[u].op = "verifyOrderDelivery"
    /\ ErrorKind(call[u].result) = "IllegalTransition"
    /\ Verified(call[u].orderId) = 1
    /\ orders[call[u].orderId].status = "delivered"
    /\ tracking[call[u].orderId][Len(tracking[call[u].orderId])] = "delivered"

\* C11: cancelOrder on an order it reads in picked_up, in_transit, delivered,
\* cancelled or refunded fails at once with IllegalTransition and changes
\* neither the orders, nor any stock, nor the tracking log; it goes on to
\* cancel only from pending, payment_verified or rider_assigned, and a
\* cancelOrder call returns ok only at the end of that path.
C11_CancelRejected ==
  [][\A u \in Active :
       /\ \A o \in 1..MaxOrders :
            (cancelOrder(u, o) /\ o \in DOMAIN orders) =>
              IF orders[o].status \in {"pending", "payment_verified", "rider_assigned"}
              THEN call'[u].pc = "ca_stock"
              ELSE /\ call'[u].pc = "done"
                   /\ ErrorKind(call'[u].result) = "IllegalTransition"
                   /\ orders' = orders
                   /\ products' = products
                   /\ tracking' = tracking
       /\ ( /\ call'[u] # call[u]
            /\ call'[u].pc = "done"
            /\ call'[u].op = "cancelOrder"
            /\ call'[u].result = "ok" )
            => cancelOrder_addTrackingEntry(u)]_vars

\* A cancelOrder call rejected on an order past the cancellable statuses,
\* with the stock of the order's product still decremented
C11_Witness ==
  \E u \in Active :
    /\ call[u].pc = "done"
    /\ call[u].op = "cancelOrder"
    /\ ErrorKind(call[u].result) = "IllegalTransition"
    /\ call[u].orderId \in DOMAIN orders
    /\ orders[call[u].orderId].status
         \in {"picked_up", "in_transit", "delivered", "cancelled", "refunded"}
    /\ ledger[call[u].orderId].restored = 0

\* C12: delivered, cancelled and refunded are terminal.  No step changes the
\* status of an order that is in one of them.
C12_TerminalStatuses ==
  [][\A o \in DOMAIN orders :
       orders[o].status \in {"delivered", "cancelled", "refunded"}
         => orders'[o].status = orders[o].status]_vars

\* The items and totals of the cart of user u, as getCart returns them
CartContent(cart) ==
  [items |-> cart.items, totalItems |-> cart.totalItems,
   totalAmount |-> cart.totalAmount]

\* C13: when validateCartForCheckout reports errors, createOrderFromCart fails
\* with them and does not proceed.  Up to its end the validation writes no
\* order, changes no stock, appends no tracking entry and leaves the content
\* of the cart as it was; the call goes on to create orders only when no
\* error was reported, and otherwise ends at once, failing with the errors.
C13_InvalidCartFailsFast ==
  [][\A u \in Active :
       /\ (createOrderFromCart(u) \/ validateCartForCheckout(u))
            => /\ orders' = orders
               /\ products' = products
               /\ tracking' = tracking
               /\ CartContent(carts'[u]) = CartContent(carts[u])
       /\ (At(u, "validate") /\ call'[u].pc = "addDoc")
            => call'[u].errors = <<>>
       /\ (At(u, "validate") /\ call'[u].pc \notin {"validate", "addDoc"})
            => /\ call'[u].pc = "done"
               /\ call'[u].result = "validation.errors"
               /\ call'[u].errors # <<>>
               /\ call'[u].orderIds = <<>>]_vars

\* A checkout rejected by the validation (another buyer took the stock): it
\* created no order and the cart still holds its items
C13_Witness ==
  \E u \in Active :
    /\ call[u].pc = "done"
    /\ call[u].op = "createOrderFromCart"
    /\ call[u].result = "validation.errors"
    /\ call[u].errors # <<>>
    /\ carts[u].items # <<>>
    /\ \A o \in DOMAIN orders : orders[o].buyerId # u

\* The sellers of the cart items
SellersOf(items) == {items[i].product.sellerId : i \in 1..Len(items)}

\* The cart items of seller sellerId
SellerItems(items, sellerId) ==
  SelectSeq(items, LAMBDA it : it.product.sellerId = sellerId)

\* The order record stands for exactly these items with their quantities
OrderCovers(order, items) ==
  \A p \in Products :
    (IF order.productId = p THEN order.quantity ELSE 0) = LineQuantity(items, p)

\* C14: a createOrderFromCart that succeeds on a cart with items of N sellers
\* has created exactly N orders, one per seller; each is scoped to its seller,
\* covers exactly that seller's items with their quantities and has
\* totalAmount = the sum of snapshot price * quantity over them; the cart is
\* empty afterwards.
C14_OneOrderPerSeller ==
  [][\A u \in Active :
       createOrderFromCart_clearCart(u) =>
         LET items == call[u].items
             ids == call[u].orderIds
         IN /\ Len(ids) = Cardinality(SellersOf(items))
            /\ \A sellerId \in SellersOf(items) :
                 \E i \in 1..Len(ids) :
                   /\ orders[ids[i]].sellerId = sellerId
                   /\ orders[ids[i]].buyerId = u
                   /\ orders[ids[i]].totalAmount
                        = SumAmount(SellerItems(items, sellerId))
                   /\ OrderCovers(orders[ids[i]], SellerItems(items, sellerId))
            /\ carts'[u].items = <<>>
            /\ carts'[u].totalItems = 0
            /\ carts'[u].totalAmount = 0]_vars

\* C15: when a later seller partition fails after earlier ones were created,
\* the orders already created stay valid (pending, fully created) and the
\* failing createOrderFromCart tells its caller which orders were created.
C15_PartialFailureSurfaced ==
  \A u \in Active :
    ( /\ call[u].pc = "done"
      /\ call[u].op = "createOrderFromCart"
      /\ call[u].result \in {"FirebaseError", "Failed to update stock",
                              "Failed to add tracking entry"}
      /\ call[u].orderIds # <<>> )
    => \A i \in 1..Len(call[u].orderIds) :
         /\ orders[call[u].orderIds[i]].status = "pending"
         /\ Created(call[u].orderIds[i])
         /\ \E j \in 1..Len(Surfaced(call[u])) :
              Surfaced(call[u])[j] = call[u].orderIds[i]

\* A createOrderFromCart call of user u is in progress
CheckingOut(u) ==
  call[u].op = "createOrderFromCart" /\ call[u].pc \notin {"idle", "done"}

\* C16: createOrderFromCart clears the cart only after every seller partition
\* was created.  A step of the call that changes the cart is its last one:
\* one order per seller exists, fully created, and the call returns ok.  A
\* call that returns ok leaves the same cart empty with totals 0; a call that
\* fails leaves the content of the cart as it was.
C16_ClearedAfterAllPartitions ==
  [][\A u \in Active :
       CheckingOut(u) =>
         /\ CartContent(carts'[u]) # CartContent(carts[u])
              => /\ Len(call[u].orderIds) = Cardinality(SellersOf(call[u].items))
                 /\ \A i \in 1..Len(call[u].orderIds) : Created(call[u].orderIds[i])
                 /\ call'[u].pc = "done"
                 /\ call'[u].result = "ok"
         /\ (call'[u].pc = "done" /\ call'[u].result = "ok")
              => carts'[u] = [exists |-> TRUE, items |-> <<>>,
                              totalItems |-> 0, totalAmount |-> 0]
         /\ (call'[u].pc = "done" /\ call'[u].result # "ok")
              => CartContent(carts'[u]) = CartContent(carts[u])]_vars

\* A checkout of a cart of two sellers that succeeded: two orders, cart empty
C16_Witness ==
  \E u \in Active :
    /\ call[u].pc = "done"
    /\ call[u].op = "createOrderFromCart"
    /\ call[u].result = "ok"
    /\ Len(call[u].orderIds) = 2
    /\ carts[u].exists
    /\ carts[u].items = <<>>

\* The cart item whose stock the checkout of user u decrements next
StockItem(u) == Partitions(u)[call[u].pi].items[call[u].ii]

\* C17: updateStock with operation subtract fails with InsufficientStock
\* whenever the quantity exceeds the product's current stock, and then leaves
\* the stock unchanged (the check and the write being one step).
C17_SubtractChecked ==
  [][\A u \in Active :
       ( /\ createSingleOrder_updateStock(u)
         /\ StockItem(u).quantity > products[StockItem(u).productId].stock )
       => /\ products' = products
          /\ call'[u].pc = "done"
          /\ ErrorKind(call'[u].result) = "InsufficientStock"]_vars

\* Units of product p subtracted by the successful updateStock calls made for
\* the orders 1..n (the first ledger[o].decremented lines of each order)
RECURSIVE Subtracted(_, _)
Subtracted(n, p) ==
  IF n = 0 THEN 0
  ELSE LineQuantity(SubSeq(ledger[n].lines, 1, ledger[n].decremented), p)
       + Subtracted(n - 1, p)

\* Units of product p added by the successful updateStock calls made for the
\* orders 1..n (each restores order.quantity to order.productId)
RECURSIVE Added(_, _)
Added(n, p) ==
  IF n = 0 THEN 0
  ELSE (IF orders[n].productId = p THEN ledger[n].restored * orders[n].quantity
        ELSE 0)
       + Added(n - 1, p)

\* C18: stock adjustments on one product are atomic with respect to each
\* other.  In every state the stock of a product is its initial stock plus
\* all quantities added minus all quantities subtracted by the updateStock
\* calls that succeeded so far: no adjustment is lost.
C18_NoLostAdjustment ==
  \A p \in DOMAIN products :
    products[p].stock
      = MaxStock + Added(Len(orders), p) - Subtracted(Len(orders), p)

\* Three adjustments of one product, two of them made by concurrent calls:
\* one subtract at creation and the add of two cancelOrder calls
C18_Witness ==
  /\ Len(orders) = 1
  /\ ledger[1].decremented = 1
  /\ ledger[1].restored = 2
  /\ products[orders[1].productId].stock = MaxStock + orders[1].quantity

\* C19: a notification dispatch that fails neither fails nor rolls back the
\* operation.  The step in which the dispatch fails changes no order and no
\* stock, keeps the tracking entry just added, and the operation goes on as
\* if the dispatch had succeeded: updateOrderStatus, verifyOrderDelivery and
\* cancelOrder return ok, createSingleOrder returns the id of its order.
C19_NotificationFailureIgnored ==
  [][\A u \in Active :
       /\ ( \/ updateOrderStatus_sendOrderNotifications_fails(u)
            \/ cancelOrder_sendOrderNotifications_fails(u) )
            => /\ call'[u].pc = "done"
               /\ call'[u].result = "ok"
               /\ orders' = orders
               /\ products' = products
               /\ Len(tracking'[call[u].orderId])
                    = Len(tracking[call[u].orderId]) + 1
       /\ createSingleOrder_sendOrderNotifications_fails(u)
            => /\ call'[u].pc \in {"addDoc", "clear"}
               /\ call'[u].orderIds = Append(call[u].orderIds, call[u].orderRef)
               /\ orders' = orders
               /\ products' = products
               /\ Len(tracking'[call[u].orderRef])
                    = Len(tracking[call[u].orderRef]) + 1]_vars

\* A status change that returned ok although its notification dispatch
\* failed: the status is written and the log ends with its entry
C19_Witness ==
  \E u \in Active :
    /\ call[u].pc = "done"
    /\ call[u].op \in {"updateOrderStatus", "verifyOrderDelivery", "cancelOrder"}
    /\ call[u].result = "ok"
    /\ call[u].orderId \in DOMAIN orders
    /\ ledger[call[u].orderId].unsent = 1
    /\ ledger[call[u].orderId].writes # <<>>
    /\ Len(ledger[call[u].orderId].writes) = Len(tracking[call[u].orderId])
    /\ tracking[call[u].orderId][Len(tracking[call[u].orderId])]
         = orders[call[u].orderId].status

\* A call working on order o is in progress
InProgressOn(o) ==
  \E u \in Active :
    ~Free(u) /\ (call[u].orderId = o \/ call[u].orderRef = o)

\* C20: the tracking log holds one entry per committed status change, the
\* creation included.  Whenever no call on an order is in progress (also
\* after a call on it failed), the order has as many tracking entries as
\* status writes were committed and the most recent entry carries the
\* order's current status.
C20_OneEntryPerStatusChange ==
  \A o \in DOMAIN orders :
    ~InProgressOn(o)
    => /\ Len(tracking[o]) = Len(ledger[o].writes)
       /\ tracking[o][Len(tracking[o])] = orders[o].status


\* The fields of an order document fixed at its creation
FixedOrderFields ==
  {"verificationCode", "buyerId", "sellerId", "productId", "quantity",
   "totalAmount"}

\* The operations that wrote the status of order o, in the order applied
WritersOf(o) == {ledger[o].writes[i].op : i \in 1..Len(ledger[o].writes)}

\* C21: an order's verificationCode is set when the order is created and
\* never changes: no step of updateOrderStatus, verifyOrderDelivery or
\* cancelOrder (nor any other step) modifies the verificationCode, buyerId,
\* sellerId, productId, quantity or totalAmount of an existing order, and no
\* order document is removed.
C21_OrderFieldsImmutable ==
  [][\A o \in 1..Len(orders) :
       /\ o <= Len(orders')
       /\ \A f \in FixedOrderFields : orders'[o][f] = orders[o][f]]_vars

\* An order written by updateOrderStatus and then cancelled by cancelOrder
\* that still carries the code it was created with
C21_Witness ==
  \E o \in 1..Len(orders) :
    /\ {"updateOrderStatus", "cancelOrder"} \subseteq WritersOf(o)
    /\ orders[o].status = "cancelled"
    /\ orders[o].verificationCode = "482913"


\* Sum of the quantities of the first n lines of items
RECURSIVE QuantityUpTo(_, _)
QuantityUpTo(items, n) ==
  IF n = 0 THEN 0 ELSE items[n].quantity + QuantityUpTo(items, n - 1)

\* Sum of snapshot price times quantity over the first n lines of items
RECURSIVE AmountUpTo(_, _)
AmountUpTo(items, n) ==
  IF n = 0 THEN 0
  ELSE items[n].product.price * items[n].quantity + AmountUpTo(items, n - 1)

\* C22: in every stored cart state, so after every cart mutation (addToCart,
\* updateCartItemQuantity, removeFromCart, clearCart, syncCartWithLatestData),
\* totalItems equals the sum of the quantities of the lines and totalAmount
\* equals the sum over the lines of snapshot price times quantity.
C22_TotalsDerived ==
  \A u \in Active :
    /\ carts[u].totalItems = QuantityUpTo(carts[u].items, Len(carts[u].items))
    /\ carts[u].totalAmount = AmountUpTo(carts[u].items, Len(carts[u].items))

\* A cart of two lines, one of them of two units, rewritten by a sync that
\* refreshed a snapshot whose price the seller had raised
C22_Witness ==
  \E u \in Active :
    /\ call[u].pc = "done"
    /\ call[u].op = "syncCartWithLatestData"
    /\ call[u].hasChanges
    /\ Len(carts[u].items) = 2
    /\ carts[u].totalItems = 3
    /\ \E i \in 1..2 :
         carts[u].items[i].product.price
           # Catalogue(Products)[carts[u].items[i].productId].price


\* C23: addToCart fails with ProductUnavailable and leaves the cart unchanged
\* whenever the live product is not active or the requested quantity exceeds
\* the live stock.
C23_UnavailableRejected ==
  [][\A u \in Active, p \in DOMAIN products, q \in 1..MaxQty :
       (/\ addToCart(u, p, q)
        /\ (products[p].status # "active" \/ q > products[p].stock))
         => /\ ErrorKind(call'[u].result) = "ProductUnavailable"
            /\ carts'[u] = carts[u]]_vars


\* No two lines of items carry the same productId
DistinctLines(items) ==
  \A i, j \in 1..Len(items) : items[i].productId = items[j].productId => i = j

\* C24: addToCart of a product already in the cart merges into the existing
\* line (new quantity = old quantity + added quantity, every other line as it
\* was) and fails, leaving the cart unchanged, when the merged quantity
\* exceeds the live stock; after any sequence of cart operations a cart never
\* holds two lines with the same productId.  (The merge is stated for active
\* products.)
C24_MergeOnAdd ==
  [][\A u \in Active :
       /\ DistinctLines(carts'[u].items)
       /\ \A p \in DOMAIN products, q \in 1..MaxQty :
            (addToCart(u, p, q) /\ findIndex(carts[u].items, p) > 0)
              => LET i == findIndex(carts[u].items, p)
                     merged == carts[u].items[i].quantity + q
                 IN IF merged > products[p].stock
                    THEN /\ call'[u].result # "ok"
                         /\ carts'[u] = carts[u]
                    ELSE products[p].status = "active"
                           => /\ call'[u].result = "ok"
                              /\ carts'[u].items =
                                   [carts[u].items EXCEPT ![i].quantity = merged]]_vars

\* A cart whose only line was added as one unit when the stock was one and,
\* after the seller restocked, merged with a second unit by addToCart
C24_Witness ==
  \E u \in Active :
    /\ call[u].pc = "done"
    /\ call[u].op = "addToCart"
    /\ call[u].result = "ok"
    /\ Len(carts[u].items) = 1
    /\ carts[u].items[1].quantity = 2
    /\ carts[u].items[1].product.stock = 1


\* The cart that removeFromCart(u, p) leaves
AfterRemove(u, p) ==
  LET kept == SelectSeq(carts[u].items, LAMBDA item : item.productId # p)
  IN [exists |-> TRUE, items |-> kept,
      totalItems |-> QuantityUpTo(kept, Len(kept)),
      totalAmount |-> AmountUpTo(kept, Len(kept))]

\* C25: updateCartItemQuantity with quantity 0 has exactly the effect of
\* removeFromCart for that product; with a negative quantity it fails with
\* InvalidQuantity and leaves the cart unchanged; with a positive quantity
\* above the live stock it fails with ProductUnavailable and leaves the cart
\* unchanged; otherwise the quantity of the line of that product becomes the
\* requested quantity and no other line changes.
C25_UpdateQuantity ==
  [][\A u \in Active, p \in Products, q \in -1..MaxQty :
       updateCartItemQuantity(u, p, q)
         => /\ q = 0
                 => /\ call'[u].result = "ok"
                    /\ carts'[u] = AfterRemove(u, p)
            /\ q < 0
                 => /\ ErrorKind(call'[u].result) = "InvalidQuantity"
                    /\ carts'[u] = carts[u]
            /\ (q > 0 /\ p \in DOMAIN products /\ q > products[p].stock)
                 => /\ ErrorKind(call'[u].result) = "ProductUnavailable"
                    /\ carts'[u] = carts[u]
            /\ (q > 0 /\ p \in DOMAIN products /\ q <= products[p].stock)
                 => /\ call'[u].result = "ok"
                    /\ Len(carts'[u].items) = Len(carts[u].items)
                    /\ \A i \in 1..Len(carts[u].items) :
                         carts'[u].items[i] =
                           IF carts[u].items[i].productId = p
                           THEN [carts[u].items[i] EXCEPT !.quantity = q]
                           ELSE carts[u].items[i]]_vars

\* A cart of two lines in which updateCartItemQuantity raised one line to two
\* units after the seller restocked the product
C25_Witness ==
  \E u \in Active :
    /\ call[u].pc = "done"
    /\ call[u].op = "updateCartItemQuantity"
    /\ call[u].result = "ok"
    /\ Len(carts[u].items) = 2
    /\ \E i \in 1..2 :
         /\ carts[u].items[i].quantity = 2
         /\ carts[u].items[i].product.stock = 1


\* User u takes a step of a validateCartForCheckout called on its own
ValidateStep(u) ==
  \/ validateCartForCheckout_getCart(u)
  \/ (call[u].op = "validateCartForCheckout" /\ validateCartForCheckout(u))

\* C26: validateCartForCheckout performs no mutation: no step of it changes
\* the stored carts (including whether a cart document exists for the user),
\* the products, the orders or the tracking entries.
C26_ValidateReadOnly ==
  [][\A u \in Active :
       ValidateStep(u)
         => /\ carts' = carts
            /\ products' = products
            /\ orders' = orders
            /\ tracking' = tracking]_vars


\* The productIds of the lines of items, in order
LineIds(items) == [i \in 1..Len(items) |-> items[i].productId]

\* For a validation that ended: the product read for the line is missing or
\* not active; the line asks for more than the stock read for it
Gone(read, line) ==
  read[line.productId] = NoProduct \/ read[line.productId].status # "active"

Short(read, line) ==
  ~Gone(read, line) /\ read[line.productId].stock < line.quantity

\* C27: validateCartForCheckout returns isValid = false with a non-empty
\* errors list whenever, for some line, the live product it read does not
\* exist, is not active or has stock below the quantity of the line; and the
\* returned unavailable list holds exactly the productIds of the lines whose
\* product does not exist or is not active.
C27_ValidationFindings ==
  [][\A u \in Active :
       (validateCartForCheckout(u) /\ call'[u].pc # "validate")
         => LET items == call[u].items
                read == call'[u].read
            IN /\ (\E i \in 1..Len(items) :
                      Gone(read, items[i]) \/ Short(read, items[i]))
                    => /\ ~isValid(call'[u].errors)
                       /\ call'[u].errors # <<>>
                       /\ call'[u].pc = "done"
               /\ call'[u].unavailable =
                    LineIds(SelectSeq(items, LAMBDA line : Gone(read, line)))]_vars

\* A validation called on its own that returned errors for a cart of two
\* lines, one whose product the seller deactivated (listed as unavailable)
\* and one short of stock (not listed)
C27_Witness ==
  \E u \in Active :
    /\ call[u].pc = "done"
    /\ call[u].op = "validateCartForCheckout"
    /\ Len(carts[u].items) = 2
    /\ Len(call[u].errors) = 2
    /\ Len(call[u].unavailable) = 1
    /\ {call[u].errors[1].kind, call[u].errors[2].kind}
         = {"is currently unavailable", "Only stock units available"}


\* The only discrepancy the validation read: every product exists, is active
\* and has the stock, and some live price differs from the snapshot price
OnlyPriceDrift(read, items) ==
  /\ \A i \in 1..Len(items) : ~Gone(read, items[i]) /\ ~Short(read, items[i])
  /\ \E i \in 1..Len(items) :
       read[items[i].productId].price # items[i].product.price

\* C28: price drift is flagged but does not block.  When the only
\* discrepancy is a live price that differs from the snapshot price (by more
\* than the tolerance), validateCartForCheckout reports it as an error and
\* createOrderFromCart still proceeds to create the orders.
C28_PriceDriftDoesNotBlock ==
  [][\A u \in Active :
       (/\ validateCartForCheckout(u)
        /\ call[u].op = "createOrderFromCart"
        /\ call'[u].pc # "validate"
        /\ OnlyPriceDrift(call'[u].read, call[u].items))
         => /\ call'[u].errors # <<>>
            /\ call'[u].pc = "addDoc"]_vars


\* User u's syncCartWithLatestData returns with this step
SyncReturns(u) ==
  /\ syncCartWithLatestData(u) \/ syncCartWithLatestData_getProduct(u)
  /\ call'[u].pc = "done"

\* C29: syncCartWithLatestData is idempotent.  A call that follows a
\* completed sync of the same cart, with no other cart call in between and
\* every product read returning what the first sync had read, leaves the
\* items, totalItems and totalAmount of the cart as the first call left them.
C29_SyncIdempotent ==
  [][\A u \in Active :
       (SyncReturns(u) /\ call'[u].seen = "repeat")
         => CartContent(carts'[u]) = CartContent(carts[u])]_vars

\* A second sync in a row that returned on a cart of two lines, one of them
\* carrying a snapshot with the price the seller had raised
C29_Witness ==
  \E u \in Active :
    /\ call[u].pc = "done"
    /\ call[u].op = "syncCartWithLatestData"
    /\ call[u].seen = "repeat"
    /\ Len(carts[u].items) = 2
    /\ \E i \in 1..2 :
         carts[u].items[i].product.price
           # Catalogue(Products)[carts[u].items[i].productId].price

\* The sync keeps the line: the product read for it exists and is active, and
\* the quantity clamped to the stock read is at least one
Kept(read, line) ==
  /\ ~Gone(read, line)
  /\ Min(line.quantity, read[line.productId].stock) >= 1

\* C30: when syncCartWithLatestData returns, every remaining line refers to
\* a product that exists and is active, its snapshot equals the live product
\* the sync read, and its quantity is min(previous quantity, live stock) and
\* at least 1; the lines whose product is gone or inactive or whose quantity
\* was clamped to 0 are removed; no line is added.
C30_SyncPostcondition ==
  [][\A u \in Active :
       SyncReturns(u)
         => LET before == carts[u].items
                after == carts'[u].items
                read == call'[u].read
            IN /\ LineIds(after)
                    = LineIds(SelectSeq(before, LAMBDA line : Kept(read, line)))
               /\ \A i \in 1..Len(after) :
                    LET p == after[i].productId
                        previous == before[findIndex(before, p)]
                    IN /\ read[p] # NoProduct
                       /\ read[p].status = "active"
                       /\ after[i].product = read[p]
                       /\ after[i].quantity = Min(previous.quantity, read[p].stock)
                       /\ after[i].quantity >= 1]_vars

\* A sync that returned having dropped one of two lines (its product was
\* deactivated, deleted or out of stock) and refreshed the other with the
\* price the seller had raised
C30_Witness ==
  \E u \in Active :
    /\ call[u].pc = "done"
    /\ call[u].op = "syncCartWithLatestData"
    /\ call[u].hasChanges
    /\ Cardinality(DOMAIN call[u].read) = 2
    /\ Len(carts[u].items) = 1
    /\ carts[u].items[1].product = call[u].read[carts[u].items[1].productId]
    /\ carts[u].items[1].product.price
         # Catalogue(Products)[carts[u].items[1].productId].price


\* Sum of the totalAmount recorded on the orders ids, in hundredths
RECURSIVE SumOrderAmounts(_)
SumOrderAmounts(ids) ==
  IF ids = <<>> THEN 0
  ELSE orders[Head(ids)].totalAmount * 100 + SumOrderAmounts(Tail(ids))

\* C31: pricing is identical at cart display and at order creation.  When a
\* checkout has created the orders of the cart (the step that clears the
\* cart and returns), the total of the summary computed for the cart, by
\* getCartSummary and by the screens, equals the sum of the totalAmount
\* recorded on the orders created.
C31_PricingAgrees ==
  [][\A u \in Active :
       createOrderFromCart_clearCart(u)
         => /\ getCartSummary_summary(getCart(u)).total
                 = SumOrderAmounts(call[u].orderIds)
            /\ calculateOrderSummary(subscribeToCart(u)).total
                 = SumOrderAmounts(call[u].orderIds)]_vars


\* The stock-restoring updateStock of u's cancelOrder fails in this step:
\* the write rejects, or the product document is gone
RestoreFails(u) ==
  \/ cancelOrder_updateStock_fails(u)
  \/ /\ cancelOrder_updateStock(u)
     /\ updateStockFails(products, orders[call[u].orderId].productId)

\* C32: a failure to restore the stock during a cancellation propagates.
\* When the stock-restoring updateStock fails inside cancelOrder, the call
\* ends there with an error: it writes no status (the order is not recorded
\* as cancelled by it), adds no stock, appends no tracking entry and
\* dispatches no notification.
C32_RestoreFailurePropagates ==
  [][\A u \in Active :
       RestoreFails(u)
         => /\ call'[u].pc = "done"
            /\ call'[u].op = "cancelOrder"
            /\ call'[u].result \notin {"ok", "none"}
            /\ orders' = orders
            /\ products' = products
            /\ tracking' = tracking
            /\ ledger' = ledger]_vars

\* A cancelOrder that failed on the stock: the order is still cancellable,
\* nothing was restored and the log holds no cancelled entry
C32_Witness ==
  \E u \in Active :
    /\ call[u].pc = "done"
    /\ call[u].op = "cancelOrder"
    /\ call[u].result = "Failed to update stock"
    /\ orders[call[u].orderId].status \in Cancellable
    /\ ledger[call[u].orderId].restored = 0
    /\ \A i \in 1..Len(tracking[call[u].orderId]) :
         tracking[call[u].orderId][i] # "cancelled"


\* Summary r, in hundredths, is the stated pricing of subtotal: tax 5% of the
\* subtotal, delivery fee 0 exactly when the subtotal exceeds 10000 and 1000
\* otherwise, total the sum of the three
StatedPricing(r, subtotal) ==
  /\ r # null
  /\ r.subtotal = subtotal * 100
  /\ r.tax * 100 = r.subtotal * 5
  /\ r.deliveryFee = IF subtotal > 10000 THEN 0 ELSE 1000 * 100
  /\ r.total = r.subtotal + r.tax + r.deliveryFee

\* The calls that compute a summary
SummaryOps == {"getCartSummary", "renderCartSummary", "calculateOrderSummary"}

\* C33 as stated: for every subtotal, that of the empty cart included, each of
\* the three copies of the computation (getCartSummary, renderCartSummary,
\* calculateOrderSummary) returns the stated pricing of the cart's subtotal,
\* so the three return the same result for the same subtotal.
C33_PricingAsStated ==
  \A u \in Active :
    (call[u].pc = "done" /\ call[u].op \in SummaryOps)
      => StatedPricing(call[u].summary, carts[u].totalAmount)

\* C33: getCartSummary returns the stated pricing of the cart's subtotal for
\* every cart (delivery fee 1000 at subtotal 10000 and at subtotal 0);
\* renderCartSummary and calculateOrderSummary return the same amounts for
\* every cart that has a line, and null for a cart without lines.
C33_Pricing ==
  \A u \in Active :
    (call[u].pc = "done" /\ call[u].op \in SummaryOps)
      => IF call[u].op = "getCartSummary" \/ Len(carts[u].items) > 0
         THEN StatedPricing(call[u].summary, carts[u].totalAmount)
         ELSE call[u].summary = null

\* The checkout screen computed the summary of a cart whose subtotal is
\* exactly 10000: the delivery fee is charged
C33_Witness ==
  \E u \in Active :
    /\ call[u].pc = "done"
    /\ call[u].op = "calculateOrderSummary"
    /\ carts[u].totalAmount = 10000
    /\ call[u].summary.deliveryFee = 1000 * 100
    /\ call[u].summary.total = 1150000


\* The operations of OrderService that C34 names
OrderOps ==
  {"createOrderFromCart", "updateOrderStatus", "verifyOrderDelivery",
   "cancelOrder"}

\* C34: every call to createOrderFromCart, updateOrderStatus,
\* verifyOrderDelivery or cancelOrder eventually completes, with success or
\* with an error, when the store completes each access it is asked for,
\* whatever another caller does on the same product or order meanwhile.
C34_CallsComplete ==
  \A u \in Users :
    (u \in Active /\ call[u].op \in OrderOps /\ ~Free(u))
      ~> (call[u].op \in OrderOps /\ call[u].pc = "done"
          /\ call[u].result # "none")

\* Two calls on the same order that overlapped and both completed: the
\* tracking log holds their entries in the other order than the order in
\* which they wrote the status
C34_Witness ==
  /\ \A u \in Users :
       /\ u \in Active
       /\ call[u].pc = "done"
       /\ call[u].op \in OrderOps
       /\ call[u].orderId = 1
       /\ call[u].result = "ok"
  /\ Len(ledger) = 1
  /\ Len(tracking[1]) = 3
  /\ Len(ledger[1].writes) = 3
  /\ tracking[1][2] = ledger[1].writes[3].status
  /\ tracking[1][3] = ledger[1].writes[2].status
  /\ tracking[1][2] # tracking[1][3]


\* Units of product p held by those of the orders 1..n that are not cancelled
RECURSIVE QuantityHeld(_, _)
QuantityHeld(n, p) ==
  IF n = 0 THEN 0
  ELSE (IF orders[n].status # "cancelled"
        THEN LineQuantity(ledger[n].lines, p) ELSE 0)
       + QuantityHeld(n - 1, p)

\* C35: stock is conserved.  In every state where no operation is in
\* progress, for every product the current stock plus the quantity of the
\* product held by the orders that are not cancelled equals the product's
\* initial stock, for any sequence of checkouts, transitions and
\* cancellations, including checkouts whose seller partition holds several
\* different products.
C35_StockConserved ==
  Quiet
    => \A p \in DOMAIN products :
         products[p].stock + QuantityHeld(Len(orders), p) = MaxStock


\* C36: for every order, the statuses of its tracking history, in the order
\* getOrderTracking returns them, start with pending and each consecutive
\* pair is an edge of the legal transition graph; so an order that is
\* delivered has passed through payment_verified, rider_assigned, picked_up
\* and in_transit in that order.
C36_TrackingLegal ==
  \A o \in DOMAIN tracking :
    /\ tracking[o] # <<>> => tracking[o][1] = "pending"
    /\ \A i \in 1..(Len(tracking[o]) - 1) :
         <<tracking[o][i], tracking[o][i + 1]>> \in LegalTransitions
    /\ orders[o].status = "delivered"
         => \E a, b, c, d \in 1..Len(tracking[o]) :
              /\ a < b /\ b < c /\ c < d
              /\ tracking[o][a] = "payment_verified"
              /\ tracking[o][b] = "rider_assigned"
              /\ tracking[o][c] = "picked_up"
              /\ tracking[o][d] = "in_transit"


\* C37: an order reaches delivered only through a verifyOrderDelivery call
\* that supplied the order's stored verificationCode while the order was
\* in_transit: every step that moves an order to delivered is the status
\* write of such a call, and of no other operation.
C37_DeliveredOnlyByVerify ==
  [][\A o \in 1..Len(orders) :
       (orders[o].status # "delivered" /\ orders'[o].status = "delivered")
         => \E u \in Active :
              /\ verifyOrderDelivery_updateOrderStatus(u)
              /\ call[u].orderId = o
              /\ call[u].code = orders[o].verificationCode
              /\ call[u].seen = "in_transit"]_vars


\* The lines pass the tests of validateCartForCheckout against the product
\* documents as they are now
ValidNow(items) ==
  \A i \in 1..Len(items) :
    itemErrors(items[i], getProduct(items[i].productId)) = <<>>

\* C38 as stated: when syncCartWithLatestData returns leaving a cart with at
\* least one line, the cart passes validateCartForCheckout against the
\* products as they are at that moment (and so for as long as no product and
\* no cart changes afterwards).
C38_SyncThenValid ==
  [][\A u \in Active :
       (SyncReturns(u) /\ carts'[u].items # <<>>)
         => ValidNow(carts[u].items)']_vars

\* A validation that returned after a sync of the same cart, each product
\* read returning what the sync had read for it
ValidateReturnsAfterSync(u) ==
  /\ validateCartForCheckout(u)
  /\ call[u].op = "validateCartForCheckout"
  /\ call'[u].pc = "done"
  /\ call'[u].seen = "synced"

\* C38: when syncCartWithLatestData completes and leaves a cart with at least
\* one line, and no product has changed since the sync read it and the cart
\* has not changed since the sync returned, the cart passes validation: the
\* validateCartForCheckout that follows returns isValid = true, no errors and
\* no unavailable products.
C38_SyncThenValidUnchanged ==
  [][\A u \in Active :
       /\ (/\ SyncReturns(u)
           /\ carts'[u].items # <<>>
           /\ \A p \in DOMAIN call'[u].read : call'[u].read[p] = getProduct(p))
            => ValidNow(carts[u].items)'
       /\ ValidateReturnsAfterSync(u)
            => /\ isValid(call'[u].errors)
               /\ call'[u].errors = <<>>
               /\ call'[u].unavailable = <<>>]_vars

\* A validation returned valid right after a sync, on a cart of two lines one
\* of which carries a price the seller had changed
C38_Witness ==
  \E u \in Active :
    /\ call[u].pc = "done"
    /\ call[u].op = "validateCartForCheckout"
    /\ call[u].seen = "synced"
    /\ call[u].errors = <<>>
    /\ Len(carts[u].items) = 2
    /\ \E i \in 1..2 :
         carts[u].items[i].product.price
           # Catalogue(Products)[carts[u].items[i].productId].price


\* C39: no cart item is ordered twice.  When createOrderFromCart returns,
\* with success or with a failure, no product of a line placed into an order
\* that the call has created is still in the cart of the buyer.
C39_NoItemLeftInCart ==
  [][\A u \in Active :
       (CheckingOut(u) /\ call'[u].pc = "done")
         => \A k \in 1..Len(call'[u].orderIds) :
              LET lines == ledger'[call'[u].orderIds[k]].lines
              IN \A i \in 1..Len(lines) :
                   \A j \in 1..Len(carts'[u].items) :
                     carts'[u].items[j].productId # lines[i].productId]_vars

====
